---- MODULE Spec2Model ----
(***************************************************************************)
(* A model of the ingester and the compactor.                              *)
(*                                                                         *)
(* The partition buffer (ingester/src/buffer_tree/partition.rs):           *)
(* PartitionData and the per-namespace PartitionCounter the partitions of  *)
(* a namespace share.  Every PartitionData method takes &mut self, so each *)
(* method is one atomic action.  The debug_assert!/assert! calls of the    *)
(* methods are modelled as they are evaluated: a failed assertion sets     *)
(* `panicked`.                                                             *)
(*                                                                         *)
(* DataBuffer, PersistingList, BatchIdent and PartitionCounter live in     *)
(* submodules (buffer, persisting_list, persisting, counter) that are not  *)
(* part of the sources at hand; the operators named after them follow the  *)
(* documented contract of those types.                                     *)
(*                                                                         *)
(* WAL replay (ingester/src/init/wal_replay.rs): replay and replay_file    *)
(* are one sequential async task; the model steps it from one call into    *)
(* its collaborators (the WAL, the segment reader, the ingest state, the   *)
(* sink, the persist queue) to the next.  What a collaborator answers is   *)
(* chosen when it is asked.  The WAL and its readers are the WalReader     *)
(* trait of the file; the ingest state lives in a module that is not part  *)
(* of the sources at hand and follows its documented contract.             *)
(*                                                                         *)
(* The persist workers (ingester/src/persist/worker.rs): two worker tasks  *)
(* that share the catalog and the object store, stepped from one await on  *)
(* a shared service to the next.                                           *)
(*                                                                         *)
(* The compactor: two partition filters (compactor/src/components) and     *)
(* the driver of one compaction job (compactor/src/driver.rs), stepped     *)
(* from one await to the next: the futures of a range's branches and of a  *)
(* chunk's plans run side by side as buffer_unordered allows, a step that  *)
(* returns an error ends try_compact_partition, and the partition timeout  *)
(* may fire at any await.  The timeout wrapper, the semaphore, the         *)
(* scratchpad, the catalog and the other components are not part of the    *)
(* sources at hand; what they answer is chosen when they are asked.        *)
(***************************************************************************)
EXTENDS Integers, Sequences, FiniteSets, TLC

\* ------------------------------------------------------------------ bounds
NumPartitions == 2      \* partitions sharing one namespace counter
MaxWrites == 3          \* accepted buffer_write calls over all partitions
MaxSeqNum == 2          \* sequence numbers are drawn from 1..MaxSeqNum
MaxSegments == 2        \* segment files the WAL holds when replay starts
MaxWalOps == 2          \* ops written to the WAL, over all its segments
MaxReplays == 2         \* calls of replay on the same WAL
MaxJobs == 2            \* persist requests enqueued for the workers
MaxCatalogErrors == 2   \* errors the catalog answers before it recovers
MaxParquetBytes == 2    \* max_parquet_bytes is drawn from 1..MaxParquetBytes
MaxKeep == 2            \* files a branch keeps
MaxFilterCalls == 5     \* calls of the metrics wrapper
MaxRounds == 2          \* rounds of one compaction job
MaxRanges == 2          \* ranges of a round
MaxBranches == 2        \* branches of a range
MaxPlans == 5           \* plans of a branch
MaxPermits == 4         \* permits of the semaphore
MaxTableLimit == 2      \* max_tables is drawn from 1..MaxTableLimit
MaxColumnLimit == 2     \* max_columns_per_table, from 1..MaxColumnLimit
MaxWriteTables == 2     \* tables named by one write

Partitions == 1..NumPartitions
SeqNums == 1..MaxSeqNum
Columns == {"time", "x"}
TimeValues == {1, 2}

\* An OwnedProjection: the default projection selects every column.
Projections == {Columns, {"x"}}

VARIABLES
    is_empty,                    \* [p] PartitionData::is_empty
    buffer,                      \* [p] PartitionData::buffer
    persisting,                  \* [p] PartitionData::persisting
    started_persistence_count,   \* [p] PartitionData::started_persistence_count
    completed_persistence_count, \* [p] PartitionData::completed_persistence_count
    partition_counter,           \* the namespace's shared PartitionCounter
    handles,                     \* [p] PersistingData values held by the caller
    ret,                         \* the last call and what it returned
    panicked,                    \* an assertion of the code failed
    nwrites,                     \* accepted buffer_write calls so far
    log,                         \* [p] the accepted calls whose data the
                                 \* partition still owes, in call order
    struck                       \* the writes a mark_persisted just retired

vars == <<is_empty, buffer, persisting, started_persistence_count,
          completed_persistence_count, partition_counter, handles, ret,
          panicked, nwrites, log, struck>>

VARIABLES
    wal,                \* the WAL's segment files, oldest first
    ingest_state,       \* IngestState: the set of errors currently set
    replay_pc,          \* where the replay task stands
    replays,            \* calls of replay so far
    may_fail,           \* whether the WAL, the readers and the sink may
                        \* answer a call with an error
    files,              \* replay: the segment ids closed_segments listed
    listed,             \* the segment files as they were when listed
    file_number,        \* replay: 1-based index of the file being replayed
    max_sequence,       \* replay: max_sequence (an Option, see None/Some)
    file_max_sequence,  \* replay_file: max_sequence
    replay_batch,       \* replay_file: the batch the reader is at
    replay_op,          \* replay_file: the op of the batch it is at
    polled,             \* replay_file: what the last successful poll of
                        \* the ingest state read
    replay_result,      \* replay: replay_result, what replay_file returned
    result,             \* what replay returned
    metrics,            \* the ingester_wal_replay_* counters
    trace               \* the calls the sink, the persist queue and the
                        \* WAL received, in call order

replay_vars == <<wal, ingest_state, replay_pc, replays, may_fail, files,
                 listed, file_number, max_sequence, file_max_sequence,
                 replay_batch, replay_op, polled, replay_result, result,
                 metrics, trace>>

VARIABLES
    global_queue,       \* the persist requests of the global work queue
    rx,                 \* [w] the persist requests of the worker's own queue
    enqueued,           \* persist requests enqueued so far
    worker_pc,          \* [w] where the worker task stands
    ctx,                \* [w] the Context of the job the worker drives
    sort_key,           \* [w] the partition sort key the worker's node caches
    catalog_sort_key,   \* the partition sort key in the catalog (an Option)
    parquet_files,      \* the Parquet file rows of the catalog
    uploads,            \* the objects uploaded to the object store
    next_uuid,          \* object store ids handed out so far
    installs,           \* the sort keys cas_sort_key installed, and for whom
    catalog_faults,     \* the errors the catalog will still answer with
    notified            \* the jobs the completion observer was told of

worker_vars == <<global_queue, rx, enqueued, worker_pc, ctx, sort_key,
                 catalog_sort_key, parquet_files, uploads, next_uuid,
                 installs, catalog_faults, notified>>

VARIABLES
    rx_closed,          \* [w] every sender of the worker's own queue is gone
    global_closed       \* the global work queue is closed

channel_vars == <<rx_closed, global_closed>>

VARIABLES
    progress_call,      \* the last call of PossibleProgressFilter::apply:
                        \* the filter, the arguments and what it returned
    pass_counter,       \* MetricsPartitionFilterWrapper::pass_counter
    filter_counter,     \* MetricsPartitionFilterWrapper::filter_counter
    error_counter,      \* MetricsPartitionFilterWrapper::error_counter
    filter_call         \* the last call of the wrapper's apply: what the
                        \* inner filter returned and what the wrapper did

filter_vars == <<progress_call, pass_counter, filter_counter, error_counter,
                 filter_call>>

VARIABLES
    total_permits,      \* df_semaphore.total_permits()
    permits,            \* permits of df_semaphore held by plans
    gossip_handle,      \* whether compact was given a gossip handle
    workload,           \* what the partition may ask of the job: the
                        \* ranges of a round, the branches of a range,
                        \* their files and how they are classified
    job_pc,             \* where compact_partition stands with the job
    job_res,            \* the result compact_partition hands to the sink
    progress_signals,   \* the progress signals transmitted
    gossips,            \* the compaction events broadcast to gossip peers
    try_pc,             \* where try_compact_partition stands
    try_res,            \* what try_compact_partition returned
    round,              \* the rounds calculated so far
    num_ranges,         \* round_info.ranges.len() of the round at hand
    range_no,           \* the range of the round being compacted
    ranges,             \* round_info.ranges: for each range its branches
                        \* (an Option) and its files_for_later (an Option)
    branches,           \* the branches of that range, each with its
                        \* position, its chunk and the plans of the chunk
    catalog_commits,    \* the commits the catalog took for the partition
    sink,               \* what compaction_job_done_sink recorded
    scratchpad_cleaned, \* how often the job's scratchpad was cleaned
    plan_returned       \* what execute_plan returned last, and after how
                        \* many attempts

driver_vars == <<total_permits, permits, gossip_handle, workload, job_pc,
                 job_res,
                 progress_signals, gossips, try_pc, try_res, round, num_ranges,
                 range_no, ranges, branches, catalog_commits, sink,
                 scratchpad_cleaned, plan_returned>>

VARIABLES
    namespace_schema,   \* the cached NamespaceSchema: its tables with
                        \* their column names, max_tables and
                        \* max_columns_per_table
    column_names_by_table,  \* the write: (table_name, column_names)
                        \* in the order the iterator yields them
    limit_result,       \* what validate_schema_limits returned
    service_limit_hit_tables,   \* SchemaValidator's counter, limit=table
    service_limit_hit_columns   \* SchemaValidator's counter, limit=column

router_vars == <<namespace_schema, column_names_by_table, limit_result,
                 service_limit_hit_tables, service_limit_hit_columns>>

\* What the job told the timeout wrapper and the gossip peers.
signals == <<progress_signals, gossips>>

\* What the job is given and never changes.
fixed == <<total_permits, gossip_handle, workload>>

\* ------------------------------------------------------------ data values
Row(k, v) == [c \in Columns |-> IF c = "time" THEN k ELSE v]

\* The MutableBatch values a write may carry: one or two rows, all carrying
\* the field value v.
Batches(v) == {<<Row(1, v)>>, <<Row(1, v), Row(2, v)>>}

Project(row, cols) == [c \in cols |-> row[c]]

ProjectRows(rows, cols) == [i \in DOMAIN rows |-> Project(rows[i], cols)]

RECURSIVE Concat(_)
Concat(ss) == IF ss = <<>> THEN <<>> ELSE Head(ss) \o Concat(Tail(ss))

RECURSIVE SumLen(_)
SumLen(ss) == IF ss = <<>> THEN 0 ELSE Len(Head(ss)) + SumLen(Tail(ss))

\* ------------------------------------------------------------- DataBuffer
DataBuffer_default == [rows |-> <<>>, seqs |-> {}]

DataBuffer_rows(b) == Len(b.rows)

\* A MutableBatch the data buffer cannot take: a negative field value stands
\* for a value whose type conflicts with the column the buffer holds.
ConflictingBatch == <<Row(1, -1)>>

\* Buffering a write appends the rows and records the sequence number; a
\* batch that conflicts with the buffered schema is refused and the buffer
\* is left as it was.
DataBuffer_buffer_write(b, mb, sequence_number) ==
    IF \E i \in DOMAIN mb : mb[i].x < 0
    THEN [ok |-> FALSE, buf |-> b]
    ELSE [ok |-> TRUE,
          buf |-> [rows |-> b.rows \o mb,
                   seqs |-> b.seqs \cup {sequence_number}]]

\* The RecordBatch list of a buffer: nothing when it holds no rows, else one
\* batch of the projected rows.
DataBuffer_get_query_data(b, projection) ==
    IF b.rows = <<>> THEN <<>> ELSE <<ProjectRows(b.rows, projection)>>

\* None (some = FALSE) when nothing is buffered.
DataBuffer_into_persisting(b) == [some |-> b.rows # <<>>, fsm |-> b]

DataBuffer_into_sequence_number_set(fsm) == fsm.seqs

\* --------------------------------------------------------- PersistingList
PersistingList_default == <<>>

PersistingList_is_empty(l) == l = <<>>

PersistingList_rows(l) == SumLen([i \in DOMAIN l |-> l[i].fsm.rows])

PersistingList_contains(l, ident) == \E i \in DOMAIN l : l[i].ident = ident

\* Forward iteration order matches write order: push to the tail.
PersistingList_push(l, ident, fsm) == Append(l, [ident |-> ident, fsm |-> fsm])

PersistingList_remove(l, ident) == SelectSeq(l, LAMBDA e : e.ident # ident)

PersistingList_get(l, ident) ==
    LET i == CHOOSE i \in DOMAIN l : l[i].ident = ident IN l[i].fsm

PersistingList_get_query_data(l, projection) ==
    Concat([i \in DOMAIN l |-> DataBuffer_get_query_data(l[i].fsm, projection)])

\* ------------------------------------------------------------- BatchIdent
BatchIdent_default == 0

BatchIdent_next(c) == c + 1

\* ------------------------------------------------------- PartitionCounter
PartitionCounter_read(c) == c.current

\* inc() fails with a limit error when the cap is already reached.
PartitionCounter_inc(c) ==
    IF c.current >= c.max
    THEN [ok |-> FALSE, counter |-> c]
    ELSE [ok |-> TRUE, counter |-> [c EXCEPT !.current = @ + 1]]

PartitionCounter_dec(c) == [c EXCEPT !.current = @ - 1]

\* ---------------------------------------------------------- return values
NoRet == [op |-> "none", p |-> 0, ok |-> TRUE, err |-> "", batches |-> <<>>,
          seqs |-> {}, ident |-> 0, projection |-> {}]

Ret(op, p, ok) == [NoRet EXCEPT !.op = op, !.p = p, !.ok = ok]

\* ---------------------------------------------------------------- history
\* The call history an observer of the partition keeps: one event per
\* accepted buffer_write and per mark_persisting that returned a handle, in
\* call order.  mark_persisted(h) strikes h's event and the writes it froze.
WriteEvent(mb, seq) == [kind |-> "write", mb |-> mb, seq |-> seq, ident |-> 0]

PersistEvent(ident) == [kind |-> "persist", mb |-> <<>>, seq |-> 0, ident |-> ident]

\* The position of the persist event of `ident` in history l.
MarkerPos(l, ident) ==
    CHOOSE j \in DOMAIN l : l[j].kind = "persist" /\ l[j].ident = ident

\* The positions of the writes frozen by the persist event at position j:
\* those after the previous persist event (or the start) and before j.
SegmentBefore(l, j) ==
    {i \in 1..(j - 1) :
        /\ l[i].kind = "write"
        /\ \A k \in (i + 1)..(j - 1) : l[k].kind = "write"}

\* History l without the persist event of `ident` and the writes it froze.
Strike(l, ident) ==
    LET j == MarkerPos(l, ident)
        gone == SegmentBefore(l, j) \cup {j}
        keep(i) == i \notin gone
        RECURSIVE Pick(_)
        Pick(i) == IF i > Len(l) THEN <<>>
                   ELSE (IF keep(i) THEN <<l[i]>> ELSE <<>>) \o Pick(i + 1)
    IN Pick(1)

\* The writes of history l that the persist event of `ident` froze, in call
\* order.
Struck(l, ident) ==
    LET j == MarkerPos(l, ident)
    IN SubSeq(l, j - Cardinality(SegmentBefore(l, j)), j - 1)

\* The rows of the writes of history l, in call order.
HistoryRows(l) == Concat([i \in DOMAIN l |-> l[i].mb])

\* ------------------------------------------------------------------- Init
\* The state PartitionData::new leaves each partition in, under a
\* namespace counter with cap max.
InitWith(max) ==
    /\ is_empty = [p \in Partitions |-> TRUE]
    /\ buffer = [p \in Partitions |-> DataBuffer_default]
    /\ persisting = [p \in Partitions |-> PersistingList_default]
    /\ started_persistence_count = [p \in Partitions |-> BatchIdent_default]
    /\ completed_persistence_count = [p \in Partitions |-> 0]
    /\ partition_counter = [current |-> 0, max |-> max]
    /\ handles = [p \in Partitions |-> {}]
    /\ ret = NoRet
    /\ panicked = FALSE
    /\ nwrites = 0
    /\ log = [p \in Partitions |-> <<>>]
    /\ struck = <<>>

\* ---------------------------------------------------------- PartitionData
\* PartitionData::rows
rows(p) == PersistingList_rows(persisting[p]) + DataBuffer_rows(buffer[p])

\* The debug_assert_eq! of PartitionData::is_empty over the given field values.
is_empty_in_sync(list, buf, flag) ==
    (PersistingList_is_empty(list) /\ DataBuffer_rows(buf) = 0) = flag

\* buffer_write, the empty -> non-empty transition: take a permit from the
\* namespace counter and clear the flag; `?` returns the counter's error.
buffer_write_inc_unchecked(was_empty, counter) ==
    IF was_empty
    THEN [ok |-> TRUE, is_empty |-> FALSE,
          counter |-> PartitionCounter_inc(counter).counter]
    ELSE [ok |-> TRUE, counter |-> counter, is_empty |-> FALSE]

buffer_write_inc_always(was_empty, counter) ==
    LET inc == PartitionCounter_inc(counter)
    IN [ok |-> inc.ok, counter |-> inc.counter,
        is_empty |-> IF inc.ok THEN FALSE ELSE was_empty]

buffer_write_inc(was_empty, counter) ==
    IF was_empty
    THEN LET inc == PartitionCounter_inc(counter)
         IN [ok |-> inc.ok, counter |-> inc.counter,
             is_empty |-> IF inc.ok THEN FALSE ELSE was_empty]
    ELSE [ok |-> TRUE, counter |-> counter, is_empty |-> was_empty]

\* PartitionData::buffer_write
buffer_write(p, mb, sequence_number) ==
    /\ ~panicked
    /\ nwrites < MaxWrites
    /\ LET inc == buffer_write_inc(is_empty[p], partition_counter)
           w == DataBuffer_buffer_write(buffer[p], mb, sequence_number)
           asserts_pre == is_empty_in_sync(persisting[p], buffer[p], is_empty[p])
           asserts_post ==
               /\ PartitionCounter_read(inc.counter) # 0
               /\ w.ok => /\ is_empty_in_sync(persisting[p], w.buf, inc.is_empty)
                           /\ ~inc.is_empty
       IN IF ~asserts_pre
          THEN /\ panicked' = TRUE
               /\ UNCHANGED <<is_empty, buffer, persisting, partition_counter,
                              ret, nwrites, log>>
          ELSE IF ~inc.ok
          THEN \* self.partition_counter.inc()? returned the limit error
               /\ ret' = [Ret("buffer_write", p, FALSE) EXCEPT !.err = "Limit"]
               /\ UNCHANGED <<is_empty, buffer, persisting, partition_counter,
                              panicked, nwrites, log, struck>>
          ELSE /\ partition_counter' = inc.counter
               /\ is_empty' = [is_empty EXCEPT ![p] = inc.is_empty]
               /\ panicked' = ~asserts_post
               /\ IF w.ok
                  THEN /\ buffer' = [buffer EXCEPT ![p] = w.buf]
                       /\ ret' = Ret("buffer_write", p, TRUE)
                       /\ nwrites' = nwrites + 1
                       /\ log' = [log EXCEPT ![p] =
                                     Append(@, WriteEvent(mb, sequence_number))]
                  ELSE \* self.buffer.buffer_write(..)? returned an error
                       /\ ret' = [Ret("buffer_write", p, FALSE) EXCEPT
                                     !.err = "Buffer"]
                       /\ UNCHANGED <<buffer, nwrites, log>>
               /\ UNCHANGED persisting
    /\ struck' = <<>>
    /\ UNCHANGED <<started_persistence_count, completed_persistence_count,
                   handles>>

\* PartitionData::get_query_data: the RecordBatch list handed to the
\* QueryAdaptor, or None (some = FALSE).
get_query_data_buffer_first(list, buf, projection) ==
    LET buffered_data == DataBuffer_get_query_data(buf, projection)
        data == buffered_data \o PersistingList_get_query_data(list, projection)
    IN [some |-> data # <<>>, data |-> data]

get_query_data_buffer_only(list, buf, projection) ==
    LET data == DataBuffer_get_query_data(buf, projection)
    IN [some |-> data # <<>>, data |-> data]

get_query_data_of(list, buf, projection) ==
    LET buffered_data == DataBuffer_get_query_data(buf, projection)
        data == PersistingList_get_query_data(list, projection) \o buffered_data
    IN [some |-> data # <<>>, data |-> data]

\* QueryAdaptor::num_rows
num_rows(data) == SumLen(data)

\* PartitionData::get_query_data.  (The cfg(debug_assertions) comparison of
\* the timestamp summaries is not modelled.)
get_query_data(p, projection) ==
    /\ ~panicked
    /\ LET q == get_query_data_of(persisting[p], buffer[p], projection)
           asserts ==
               IF ~q.some THEN rows(p) = 0
               ELSE /\ rows(p) # 0
                    /\ PartitionCounter_read(partition_counter) # 0
                    /\ num_rows(q.data) = rows(p)
       IN /\ panicked' = ~asserts
          /\ ret' = [Ret("get_query_data", p, q.some) EXCEPT
                        !.batches = q.data, !.projection = projection]
    /\ UNCHANGED <<is_empty, buffer, persisting, started_persistence_count,
                   completed_persistence_count, partition_counter, handles,
                   nwrites, log>>
    /\ struck' = <<>>

\* mark_persisting: std::mem::take(&mut self.buffer).into_persisting()?
\* leaves the default buffer behind, whether or not there was data.
mark_persisting_take_always(buf) ==
    [taken |-> [some |-> TRUE, fsm |-> buf], left |-> DataBuffer_default]

mark_persisting_take_copy(buf) ==
    [taken |-> DataBuffer_into_persisting(buf), left |-> buf]

mark_persisting_take(buf) ==
    [taken |-> DataBuffer_into_persisting(buf), left |-> DataBuffer_default]

\* mark_persisting: self.started_persistence_count.next()
mark_persisting_ident_stale(started) == started

mark_persisting_ident(started) == BatchIdent_next(started)

\* PartitionData::mark_persisting
mark_persisting(p) ==
    /\ ~panicked
    /\ LET t == mark_persisting_take(buffer[p])
           fsm == t.taken.fsm
           batch_ident == mark_persisting_ident(started_persistence_count[p])
           data == [batch_ident |-> batch_ident,
                    batches |-> DataBuffer_get_query_data(fsm, Columns)]
           list == PersistingList_push(persisting[p], batch_ident, fsm)
           asserts ==
               /\ PartitionCounter_read(partition_counter) > 0
               /\ is_empty_in_sync(list, t.left, is_empty[p])
               /\ ~is_empty[p]
               /\ PersistingList_rows(list) + DataBuffer_rows(t.left) # 0
       IN /\ buffer' = [buffer EXCEPT ![p] = t.left]
          /\ IF ~t.taken.some
             THEN /\ ret' = Ret("mark_persisting", p, FALSE)
                  /\ UNCHANGED <<persisting, started_persistence_count,
                                 handles, panicked, log>>
             ELSE /\ started_persistence_count' =
                         [started_persistence_count EXCEPT ![p] = batch_ident]
                  /\ persisting' = [persisting EXCEPT ![p] = list]
                  /\ handles' = [handles EXCEPT ![p] = @ \cup {data}]
                  /\ panicked' = ~asserts
                  /\ ret' = [Ret("mark_persisting", p, TRUE) EXCEPT
                                !.ident = batch_ident, !.batches = data.batches]
                  /\ log' = [log EXCEPT ![p] = Append(@, PersistEvent(batch_ident))]
    /\ struck' = <<>>
    /\ UNCHANGED <<is_empty, completed_persistence_count, partition_counter,
                   nwrites>>

\* mark_persisted: self.persisting.remove(batch.batch_ident())
mark_persisted_remove_oldest(list, batch) ==
    [fsm |-> Head(list).fsm, list |-> Tail(list)]

mark_persisted_remove(list, batch) ==
    [fsm |-> PersistingList_get(list, batch.batch_ident),
     list |-> PersistingList_remove(list, batch.batch_ident)]

\* mark_persisted, the non-empty -> empty transition: return the permit to
\* the namespace counter and set the flag.
mark_persisted_dec_ignoring_buffer(list, buf, counter, flag) ==
    IF PersistingList_is_empty(list)
    THEN [counter |-> PartitionCounter_dec(counter), is_empty |-> TRUE]
    ELSE [counter |-> counter, is_empty |-> flag]

mark_persisted_dec_always(list, buf, counter, flag) ==
    [counter |-> PartitionCounter_dec(counter),
     is_empty |-> PersistingList_is_empty(list) /\ DataBuffer_rows(buf) = 0]

mark_persisted_dec(list, buf, counter, flag) ==
    IF PersistingList_is_empty(list) /\ DataBuffer_rows(buf) = 0
    THEN [counter |-> PartitionCounter_dec(counter), is_empty |-> TRUE]
    ELSE [counter |-> counter, is_empty |-> flag]

\* PartitionData::mark_persisted
mark_persisted(p, batch) ==
    /\ ~panicked
    /\ batch \in handles[p]
    /\ LET asserts_pre ==
               /\ is_empty_in_sync(persisting[p], buffer[p], is_empty[p])
               /\ ~is_empty[p]
               /\ PersistingList_contains(persisting[p], batch.batch_ident)
               /\ PartitionCounter_read(partition_counter) > 0
           r == mark_persisted_remove(persisting[p], batch)
           d == mark_persisted_dec(r.list, buffer[p], partition_counter,
                                   is_empty[p])
       IN IF ~asserts_pre
          THEN /\ panicked' = TRUE
               /\ UNCHANGED <<is_empty, persisting, completed_persistence_count,
                              partition_counter, handles, ret, log, struck>>
          ELSE /\ persisting' = [persisting EXCEPT ![p] = r.list]
               /\ completed_persistence_count' =
                      [completed_persistence_count EXCEPT ![p] = @ + 1]
               /\ partition_counter' = d.counter
               /\ is_empty' = [is_empty EXCEPT ![p] = d.is_empty]
               /\ ret' = [Ret("mark_persisted", p, TRUE) EXCEPT
                             !.ident = batch.batch_ident,
                             !.seqs = DataBuffer_into_sequence_number_set(r.fsm)]
               /\ handles' = [handles EXCEPT ![p] = @ \ {batch}]
               /\ log' = [log EXCEPT ![p] = Strike(@, batch.batch_ident)]
               /\ struck' = Struck(log[p], batch.batch_ident)
               /\ UNCHANGED panicked
    /\ UNCHANGED <<buffer, started_persistence_count, nwrites>>

\* ------------------------------------------------------------- WAL replay
\* An Option<SequenceNumber>: None is the empty set, Some(x) is {x}.
None == {}

Some(x) == {x}

\* Option::max: None is below every Some.
option_max(a, b) ==
    LET s == a \cup b
    IN  IF s = {} THEN None ELSE Some(CHOOSE x \in s : \A y \in s : y <= x)

\* A SequencedWalOp is modelled by its table_write_sequence_numbers, one
\* per table the write holds data for: a write with no table data is {}.
WalOps == {{}} \cup {{s} : s \in SeqNums} \cup {SeqNums}

\* One framed batch: a non-empty sequence of ops.
WalBatches(n) == UNION {[1..k -> WalOps] : k \in 1..n}

WalOpCount(w) ==
    SumLen([i \in DOMAIN w |-> Concat(w[i].batches)])

\* ------------------------------------------------------------------- Wal
\* Wal::new / Wal::rotate: a new, empty segment file.
Wal_rotate(w) == Append(w, [id |-> Len(w) + 1, batches |-> <<>>])

\* A write batch appended to the newest segment file.
Wal_write(w, ops) ==
    [w EXCEPT ![Len(w)].batches = Append(@, ops)]

\* Wal::closed_segments: the segment ids, oldest first.
Wal_closed_segments(w) == [i \in DOMAIN w |-> w[i].id]

Wal_segment(w, id) == CHOOSE s \in {w[i] : i \in DOMAIN w} : s.id = id

\* Wal::delete, when it succeeds.
Wal_delete(w, id) == SelectSeq(w, LAMBDA s : s.id # id)

\* ----------------------------------------------------------- IngestState
IngestStateError == {"DiskFull", "PersistSaturated"}

\* A read that is Ok whatever is set.
IngestState_read_always_ok(state, exceptions) == TRUE

\* IngestState::read_with_exceptions: Ok iff no error outside exceptions
\* is set.
IngestState_read_with_exceptions(state, exceptions) == state \ exceptions = {}

\* --------------------------------------------------------- replay results
\* A Result<Option<SequenceNumber>, WalReplayError>, or the panic that
\* ended the task.
Returned(kind, io, seq) == [kind |-> kind, io |-> io, seq |-> seq]

NotReturned == Returned("none", "", None)

ROk(seq) == Returned("Ok", "", seq)

ReadEntry(io, seq) == Returned("ReadEntry", io, seq)

\* The io::ErrorKind of the read error a segment reader yields.
ReadErrors == {"UnexpectedEof", "Other"}

\* Whether a call of a collaborator succeeds.
Outcomes == IF may_fail THEN BOOLEAN ELSE {TRUE}

NoMetrics ==
    [files_started |-> 0, files_success |-> 0, files_truncated |-> 0,
     ops_success |-> 0, ops_skipped_empty |-> 0]

\* One call received by a collaborator of replay.
Call(kind, seg, b, o, seqs, ok) ==
    [kind |-> kind, seg |-> seg, batch |-> b, op |-> o, seqs |-> seqs,
     ok |-> ok]

ReplayInit ==
    /\ wal = <<>>
    /\ ingest_state = {}
    /\ replay_pc = "idle"
    /\ replays = 0
    /\ files = <<>>
    /\ listed = <<>>
    /\ file_number = 0
    /\ max_sequence = None
    /\ file_max_sequence = None
    /\ replay_batch = 0
    /\ replay_op = 0
    /\ polled = {}
    /\ replay_result = NotReturned
    /\ result = NotReturned
    /\ metrics = NoMetrics
    /\ trace = <<>>

\* ------------------------------------------------- the WAL before replay
\* What an earlier run of the ingester left on disk.
wal_rotate ==
    /\ replay_pc = "idle"
    /\ Len(wal) < MaxSegments
    /\ wal' = Wal_rotate(wal)
    /\ UNCHANGED <<ingest_state, replay_pc, replays, may_fail, files, listed, file_number,
                   max_sequence, file_max_sequence, replay_batch, replay_op,
                   polled, replay_result, result, metrics, trace>>

wal_write(ops) ==
    /\ replay_pc = "idle"
    /\ wal # <<>>
    /\ WalOpCount(wal) + Len(ops) <= MaxWalOps
    /\ wal' = Wal_write(wal, ops)
    /\ UNCHANGED <<ingest_state, replay_pc, replays, may_fail, files, listed, file_number,
                   max_sequence, file_max_sequence, replay_batch, replay_op,
                   polled, replay_result, result, metrics, trace>>

\* ----------------------------------------------------------------- replay
n_files == Len(files)

\* The file the loop is at: files are taken oldest first.
file_at_newest_first(ids, index) == ids[Len(ids) + 1 - index]

file_at(ids, index) == ids[index]

file_id == file_at(files, file_number)

\* The early return for a WAL without closed segments.
replay_no_files == ROk(None)

\* replay, up to the first iteration of its loop.
replay ==
    /\ \/ replay_pc = "idle"
       \/ replay_pc = "done" /\ result.kind = "Ok" /\ replays < MaxReplays
    /\ replays' = replays + 1
    /\ files' = Wal_closed_segments(wal)
    /\ listed' = wal
    /\ metrics' = NoMetrics
    /\ trace' = Append(trace, Call("replay", 0, 0, 0, {}, TRUE))
    /\ replay_result' = NotReturned
    /\ max_sequence' = None
    /\ IF Wal_closed_segments(wal) = <<>>
       THEN /\ result' = replay_no_files
            /\ replay_pc' = "done"
            /\ file_number' = 0
       ELSE /\ result' = NotReturned
            /\ replay_pc' = "open"
            /\ file_number' = 1
    /\ UNCHANGED <<wal, ingest_state, may_fail, file_max_sequence,
                   replay_batch, replay_op, polled>>

\* The head of one iteration: count the file as started and open it;
\* replay_file then starts with no sequence number observed.
open_segment ==
    /\ replay_pc = "open"
    /\ metrics' = [metrics EXCEPT !.files_started = @ + 1]
    /\ \E opened \in Outcomes :
         IF opened
         THEN /\ replay_pc' = "read"
              /\ file_max_sequence' = None
              /\ replay_batch' = 1
              /\ replay_op' = 1
              /\ UNCHANGED result
         ELSE /\ replay_pc' = "done"
              /\ result' = Returned("OpenSegment", "", None)
              /\ UNCHANGED <<file_max_sequence, replay_batch, replay_op>>
    /\ UNCHANGED <<wal, ingest_state, replays, may_fail, files, listed, file_number,
                   max_sequence, polled, replay_result, trace>>

\* replay_file: the reader is asked for the next batch.  It yields the
\* next batch of the file, the end of the file, or a read error; on an
\* error replay_file returns with the sequence number it observed so far.
read_batch ==
    /\ replay_pc = "read"
    /\ \/ /\ replay_batch <= Len(Wal_segment(wal, file_id).batches)
          /\ replay_pc' = "op"
          /\ UNCHANGED replay_result
       \/ /\ replay_batch > Len(Wal_segment(wal, file_id).batches)
          /\ replay_pc' = "result"
          /\ replay_result' = ROk(file_max_sequence)
       \/ \E io \in ReadErrors :
            /\ may_fail
            /\ replay_pc' = "result"
            /\ replay_result' = ReadEntry(io, file_max_sequence)
    /\ UNCHANGED <<wal, ingest_state, replays, may_fail, files, listed, file_number,
                   max_sequence, file_max_sequence, replay_batch, replay_op,
                   polled, result, metrics, trace>>

\* The op replay_file is at.
current_op == Wal_segment(wal, file_id).batches[replay_batch][replay_op]

\* The for loops of replay_file move on to the next op.
next_op ==
    IF replay_op < Len(Wal_segment(wal, file_id).batches[replay_batch])
    THEN /\ replay_op' = replay_op + 1
         /\ replay_pc' = "op"
         /\ UNCHANGED replay_batch
    ELSE /\ replay_op' = 1
         /\ replay_batch' = replay_batch + 1
         /\ replay_pc' = "read"

\* The sequence numbers of an op's tables folded into max_sequence.
observe(max_seq, seqs) ==
    option_max(max_seq, UNION {Some(s) : s \in seqs})

\* A decode that builds a write from every op, table data or none.
decode_op_without_skip ==
    /\ replay_pc = "op"
    /\ \E decoded \in Outcomes :
         IF ~decoded
         THEN /\ replay_pc' = "result"
              /\ replay_result' = Returned("MapToDml", "", None)
              /\ UNCHANGED <<file_max_sequence, replay_batch, replay_op,
                             metrics, trace>>
         ELSE /\ file_max_sequence' = observe(file_max_sequence, current_op)
              /\ replay_pc' = "gate"
              /\ UNCHANGED <<replay_batch, replay_op, replay_result,
                             metrics, trace>>
    /\ UNCHANGED <<wal, ingest_state, replays, may_fail, files, listed, file_number,
                   max_sequence, polled, result>>

\* replay_file: decode the op; skip it when it holds no table data,
\* otherwise build the write and fold its sequence numbers in.
decode_op ==
    /\ replay_pc = "op"
    /\ \E decoded \in Outcomes :
         IF ~decoded
         THEN /\ replay_pc' = "result"
              /\ replay_result' = Returned("MapToDml", "", None)
              /\ UNCHANGED <<file_max_sequence, replay_batch, replay_op,
                             metrics, trace>>
         ELSE IF current_op = {}
         THEN /\ metrics' = [metrics EXCEPT !.ops_skipped_empty = @ + 1]
              /\ trace' = Append(trace, Call("skip", file_id, replay_batch,
                                             replay_op, {}, TRUE))
              /\ next_op
              /\ UNCHANGED <<file_max_sequence, replay_result>>
         ELSE /\ file_max_sequence' = observe(file_max_sequence, current_op)
              /\ replay_pc' = "gate"
              /\ UNCHANGED <<replay_batch, replay_op, replay_result,
                             metrics, trace>>
    /\ UNCHANGED <<wal, ingest_state, replays, may_fail, files, listed, file_number,
                   max_sequence, polled, result>>

\* The ingest state errors replay does not wait for.
replay_gate_no_exceptions == {}

replay_gate_exceptions == {"DiskFull"}

\* replay_file: one turn of the loop that polls the ingest state; an
\* unhealthy state is polled again after the back-off.
poll_ingest_state ==
    /\ replay_pc = "gate"
    /\ IF IngestState_read_with_exceptions(ingest_state,
                                           replay_gate_exceptions)
       THEN /\ replay_pc' = "apply"
            /\ polled' = ingest_state
       ELSE UNCHANGED <<replay_pc, polled>>
    /\ UNCHANGED <<wal, ingest_state, replays, may_fail, files, listed, file_number,
                   max_sequence, file_max_sequence, replay_batch, replay_op,
                   replay_result, result, metrics, trace>>

\* replay_file: apply the op to the sink.
apply_op ==
    /\ replay_pc = "apply"
    /\ \E applied \in Outcomes :
         /\ trace' = Append(trace, Call("apply", file_id, replay_batch,
                                        replay_op, current_op, applied))
         /\ IF applied
            THEN /\ metrics' = [metrics EXCEPT !.ops_success = @ + 1]
                 /\ next_op
                 /\ UNCHANGED replay_result
            ELSE /\ replay_pc' = "result"
                 /\ replay_result' = Returned("Apply", "", None)
                 /\ UNCHANGED <<replay_batch, replay_op, metrics>>
    /\ UNCHANGED <<wal, ingest_state, replays, may_fail, files, listed, file_number,
                   max_sequence, file_max_sequence, polled, result>>

\* The read error replay takes for a truncated write.
tolerated_in_any_file(r, number, n) ==
    r.kind = "ReadEntry" /\ r.io = "UnexpectedEof"

tolerated(r, number, n) ==
    r.kind = "ReadEntry" /\ r.io = "UnexpectedEof" /\ number = n

\* max_sequence after a file that observed seq.
replay_max_last(max_seq, seq) == seq

replay_max(max_seq, seq) == option_max(max_seq, seq)

\* Where a file that replayed without error goes next.
after_file_always_persist(seq) == "persist"

after_file(seq) == IF seq # None THEN "persist" ELSE "delete_empty"

\* replay: what replay_file returned is counted and matched.
match_result ==
    /\ replay_pc = "result"
    /\ IF replay_result.kind = "Ok"
       THEN /\ metrics' = [metrics EXCEPT !.files_success = @ + 1]
            /\ max_sequence' = replay_max(max_sequence, replay_result.seq)
            /\ replay_pc' = after_file(replay_result.seq)
            /\ UNCHANGED result
       ELSE IF tolerated(replay_result, file_number, n_files)
       THEN /\ metrics' = [metrics EXCEPT !.files_truncated = @ + 1]
            /\ max_sequence' = replay_max(max_sequence, replay_result.seq)
            /\ replay_pc' = "persist"
            /\ UNCHANGED result
       ELSE /\ result' = replay_result
            /\ replay_pc' = "done"
            /\ UNCHANGED <<metrics, max_sequence>>
    /\ UNCHANGED <<wal, ingest_state, replays, may_fail, files, listed, file_number,
                   file_max_sequence, replay_batch, replay_op, polled,
                   replay_result, trace>>

\* The end of one iteration: the next file, or the return after the last.
next_file ==
    IF file_number < n_files
    THEN /\ file_number' = file_number + 1
         /\ replay_pc' = "open"
         /\ UNCHANGED result
    ELSE /\ replay_pc' = "done"
         /\ result' = ROk(max_sequence)
         /\ UNCHANGED file_number

\* The WAL after a call of delete.
delete_segment_skipped(w, id, deleted) == w

delete_segment(w, id, deleted) == IF deleted THEN Wal_delete(w, id) ELSE w

\* What a failed delete does to the replay.
on_delete_error_always_panic(empty) == "panic"

on_delete_error(empty) == IF empty THEN "logged" ELSE "panic"

\* replay: an empty file is deleted; a failure is logged.
delete_empty ==
    /\ replay_pc = "delete_empty"
    /\ \E deleted \in Outcomes :
         /\ wal' = delete_segment(wal, file_id, deleted)
         /\ trace' = Append(trace, Call("delete", file_id, 0, 0, {}, deleted))
         /\ IF deleted \/ on_delete_error(TRUE) = "logged"
            THEN next_file
            ELSE /\ replay_pc' = "done"
                 /\ result' = Returned("panic", "", None)
                 /\ UNCHANGED file_number
    /\ UNCHANGED <<ingest_state, replays, may_fail, files, listed, max_sequence,
                   file_max_sequence, replay_batch, replay_op, polled,
                   replay_result, metrics>>

\* replay: every partition of the sink is persisted.
persist ==
    /\ replay_pc = "persist"
    /\ trace' = Append(trace, Call("persist", file_id, 0, 0, {}, TRUE))
    /\ replay_pc' = "delete"
    /\ UNCHANGED <<wal, ingest_state, replays, may_fail, files, listed, file_number,
                   max_sequence, file_max_sequence, replay_batch, replay_op,
                   polled, replay_result, result, metrics>>

\* replay: the persisted file is deleted.
delete ==
    /\ replay_pc = "delete"
    /\ \E deleted \in Outcomes :
         /\ wal' = delete_segment(wal, file_id, deleted)
         /\ trace' = Append(trace, Call("delete", file_id, 0, 0, {}, deleted))
         /\ IF deleted \/ on_delete_error(FALSE) = "logged"
            THEN next_file
            ELSE /\ replay_pc' = "done"
                 /\ result' = Returned("panic", "", None)
                 /\ UNCHANGED file_number
    /\ UNCHANGED <<ingest_state, replays, may_fail, files, listed, max_sequence,
                   file_max_sequence, replay_batch, replay_op, polled,
                   replay_result, metrics>>

\* Another task sets or clears an error of the ingest state while replay
\* runs.
ingest_state_set(e) ==
    /\ replay_pc \notin {"idle", "done"}
    /\ e \notin ingest_state
    /\ ingest_state' = ingest_state \cup {e}
    /\ UNCHANGED <<wal, replay_pc, replays, may_fail, files, listed, file_number,
                   max_sequence, file_max_sequence, replay_batch, replay_op,
                   polled, replay_result, result, metrics, trace>>

ingest_state_unset(e) ==
    /\ replay_pc \notin {"idle", "done"}
    /\ e \in ingest_state
    /\ ingest_state' = ingest_state \ {e}
    /\ UNCHANGED <<wal, replay_pc, replays, may_fail, files, listed, file_number,
                   max_sequence, file_max_sequence, replay_batch, replay_op,
                   polled, replay_result, result, metrics, trace>>

\* ------------------------------------------------------------ persist worker
\* The persist workers (ingester/src/persist/worker.rs).  Worker A and
\* worker B run on two nodes that persist the same partition: they share
\* the catalog and the object store, and each has the sort key its node
\* caches.  A worker task is stepped from one await on a shared service (a
\* queue, the object store, the catalog, the observer) to the next.
\* Context, the deferred sort key, the compaction and the catalog are not
\* part of the sources at hand; the operators named after them follow
\* their documented contract.
Workers == {"A", "B"}
Tags == {"a", "b"}
TagOrder == <<"a", "b">>

Range(s) == {s[i] : i \in DOMAIN s}

\* The tags of a set, in column order.
SortedTags(tags) == SelectSeq(TagOrder, LAMBDA t : t \in tags)

\* The tag columns of a sort key: all but the trailing time column.
KeyTags(key) == SubSeq(key, 1, Len(key) - 1)

\* SortKeyState: a deferred load, or a provided sort key (an Option).
Deferred == [state |-> "deferred", key |-> None]
Provided(key) == [state |-> "provided", key |-> key]

\* SortKeyState::get: a deferred sort key is fetched from the catalog.
SortKeyState_get(s, catalog) ==
    IF s.state = "deferred" THEN catalog ELSE s.key

\* compact_persisting_batch: the sort key update the catalog needs so that
\* its sort key covers every tag of the data.
compact_persisting_batch(key, data) ==
    IF key = None
    THEN Some(SortedTags(data) \o <<"time">>)
    ELSE LET old == CHOOSE k \in key : TRUE
             fresh == data \ Range(old)
         IN  IF fresh = {} THEN None
             ELSE Some(KeyTags(old) \o SortedTags(fresh) \o <<"time">>)

\* CompactedStream::data_sort_key: the sort key the data is sorted by and
\* the file is written with, the catalog's sort key as it will be.
CompactedStream_data_sort_key(key, sort_key_update) ==
    IF sort_key_update /= None
    THEN CHOOSE k \in sort_key_update : TRUE
    ELSE CHOOSE k \in key : TRUE

\* PartitionRepo::cas_sort_key: installs `new` when the catalog holds
\* `old`, reports the key it holds otherwise.
cas_sort_key(catalog, old, new) ==
    IF catalog = old
    THEN [ok |-> TRUE, catalog |-> Some(new), observed |-> Some(new)]
    ELSE [ok |-> FALSE, catalog |-> catalog, observed |-> catalog]

\* What the retry loop of update_catalog_sort_key breaks with.
update_result_strict(r, new) ==
    IF r.ok THEN "Ok" ELSE "ConcurrentSortKeyUpdate"

update_result(r, new) ==
    IF r.ok \/ r.observed = Some(new)
    THEN "Ok"
    ELSE "ConcurrentSortKeyUpdate"

\* Uuid::new_v4: an id no upload had before.
Uuid_new_v4(n) == n + 1

NoRequest == [id |-> 0, data |-> {}]

\* Context::new
Context_new(req) ==
    [req |-> req, old_sort_key |-> None, sort_key_update |-> None,
     object_store_id |-> 0, update_result |-> "none", restarts |-> 0,
     retried |-> {}]

WorkerInitWith(faults, requests) ==
    /\ catalog_faults = faults
    /\ global_queue = <<>>
    /\ rx = requests
    /\ enqueued = Cardinality({w \in Workers : requests[w] /= <<>>})
    /\ worker_pc = [w \in Workers |-> "recv"]
    /\ ctx = [w \in Workers |-> Context_new(NoRequest)]
    /\ sort_key = [w \in Workers |-> Deferred]
    /\ catalog_sort_key = None
    /\ parquet_files = {}
    /\ uploads = {}
    /\ next_uuid = 0
    /\ installs = {}
    /\ notified = {}
    /\ rx_closed = [w \in Workers |-> FALSE]
    /\ global_closed = FALSE

\* Empty queues, and a catalog that answers every call.
WorkerInit == WorkerInitWith(0, [w \in Workers |-> <<>>])

\* A persist request is enqueued for a worker (dest \in Workers) or on the
\* global queue.
queue_persist(dest, data) ==
    /\ enqueued < MaxJobs
    /\ IF dest \in Workers THEN ~rx_closed[dest] ELSE ~global_closed
    /\ LET req == [id |-> enqueued + 1, data |-> data]
       IN  IF dest \in Workers
           THEN /\ rx' = [rx EXCEPT ![dest] = Append(@, req)]
                /\ UNCHANGED global_queue
           ELSE /\ global_queue' = Append(global_queue, req)
                /\ UNCHANGED rx
    /\ enqueued' = enqueued + 1
    /\ UNCHANGED <<catalog_faults,
                   worker_pc, ctx, sort_key, catalog_sort_key,
                   parquet_files, uploads, next_uuid, installs, notified>>

\* What a recv on a queue resolves to: a request while one is buffered,
\* the closed-channel value once the queue is closed and drained, and
\* nothing yet otherwise.
channel_recv(queue, closed) ==
    IF queue /= <<>> THEN "request"
    ELSE IF closed THEN "closed" ELSE "pending"

\* A select that polls the global queue first.
select_global_first(own, global) ==
    IF global /= "pending" THEN [from |-> "global", got |-> global]
    ELSE [from |-> "rx", got |-> own]

\* tokio::select! with `biased`: the branches are polled in the order
\* written, the worker's own queue first, and the first one that is ready
\* is taken.
select_biased(own, global) ==
    IF own /= "pending" THEN [from |-> "rx", got |-> own]
    ELSE [from |-> "global", got |-> global]

\* run_task, the head of the loop: the biased select takes a request or
\* returns on a closed channel.
recv(w) ==
    /\ worker_pc[w] = "recv"
    /\ LET sel == select_biased(channel_recv(rx[w], rx_closed[w]),
                                channel_recv(global_queue, global_closed))
       IN  /\ sel.got /= "pending"
           /\ IF sel.got = "closed"
              THEN /\ worker_pc' = [worker_pc EXCEPT ![w] = "stopped"]
                   /\ UNCHANGED <<ctx, rx, global_queue>>
              ELSE /\ worker_pc' = [worker_pc EXCEPT ![w] = "compact"]
                   /\ IF sel.from = "rx"
                      THEN /\ ctx' = [ctx EXCEPT
                                        ![w] = Context_new(Head(rx[w]))]
                           /\ rx' = [rx EXCEPT ![w] = Tail(@)]
                           /\ UNCHANGED global_queue
                      ELSE /\ ctx' = [ctx EXCEPT
                                        ![w] = Context_new(Head(global_queue))]
                           /\ global_queue' = Tail(global_queue)
                           /\ UNCHANGED rx
    /\ UNCHANGED <<catalog_faults,
                   enqueued, sort_key, catalog_sort_key, parquet_files,
                   uploads, next_uuid, installs, notified>>

\* compact_and_upload up to the compaction: the cached sort key is read
\* (and fetched if it was deferred), the data is compacted with it.
compact(w) ==
    /\ worker_pc[w] = "compact"
    /\ LET key == SortKeyState_get(sort_key[w], catalog_sort_key)
       IN  /\ sort_key' = [sort_key EXCEPT ![w] = Provided(key)]
           /\ ctx' = [ctx EXCEPT ![w].old_sort_key = key,
                                 ![w].sort_key_update =
                                     compact_persisting_batch(
                                         key, ctx[w].req.data),
                                 ![w].update_result = "none"]
    /\ worker_pc' = [worker_pc EXCEPT ![w] = "upload"]
    /\ UNCHANGED <<catalog_faults,
                   global_queue, rx, enqueued, catalog_sort_key,
                   parquet_files, uploads, next_uuid, installs, notified>>

\* compact_and_upload after the upload: a sort key update goes to the
\* catalog first.
after_upload_no_cas(sort_key_update) == "register"

after_upload(sort_key_update) ==
    IF sort_key_update /= None THEN "cas" ELSE "register"

\* upload: a fresh object store id, the file is written.
upload(w) ==
    /\ worker_pc[w] = "upload"
    /\ LET object_store_id == Uuid_new_v4(next_uuid)
       IN  /\ next_uuid' = next_uuid + 1
           /\ uploads' = uploads \cup
                  {[object_store_id |-> object_store_id, worker |-> w,
                    request |-> ctx[w].req.id,
                    sort_key |-> ctx[w].old_sort_key,
                    sort_key_update |-> ctx[w].sort_key_update,
                    data_sort_key |->
                        CompactedStream_data_sort_key(
                            ctx[w].old_sort_key, ctx[w].sort_key_update),
                    attempt |-> ctx[w].restarts + 1]}
           /\ ctx' = [ctx EXCEPT ![w].object_store_id = object_store_id]
    /\ worker_pc' = [worker_pc EXCEPT
                        ![w] = after_upload(ctx[w].sort_key_update)]
    /\ UNCHANGED <<catalog_faults,
                   global_queue, rx, enqueued, sort_key, catalog_sort_key,
                   parquet_files, installs, notified>>

\* run_task: where the job goes on after update_catalog_sort_key.
after_cas_no_restart(outcome) == "register"

after_cas(outcome) ==
    IF outcome = "Ok" THEN "register" ELSE "compact"

\* The sort key update_catalog_sort_key leaves in the cache.
set_partition_sort_key_stale(outcome, new, observed, cached) ==
    IF outcome = "Ok" THEN cached ELSE Provided(observed)

set_partition_sort_key(outcome, new, observed, cached) ==
    IF outcome = "Ok" THEN Provided(Some(new)) ELSE Provided(observed)

\* retry_with_backoff: where the job stands after a query error of
\* cas_sort_key.
after_query_error_restart == "compact"

after_query_error == "cas"

\* retry_all_errors: where the job stands after an error of create.
after_create_error == "register"

\* update_catalog_sort_key: one try of the compare-and-swap.  A query
\* error is retried; anything else ends the retry loop.
update_catalog_sort_key(w) ==
    /\ worker_pc[w] = "cas"
    /\ \/ /\ catalog_faults > 0
          /\ catalog_faults' = catalog_faults - 1
          /\ ctx' = [ctx EXCEPT ![w].retried = @ \cup {"cas_sort_key"}]
          /\ worker_pc' = [worker_pc EXCEPT ![w] = after_query_error]
          /\ UNCHANGED <<global_queue, rx, enqueued, sort_key,
                         catalog_sort_key, parquet_files, uploads,
                         next_uuid, installs, notified>>
       \/ LET new == CHOOSE k \in ctx[w].sort_key_update : TRUE
              r == cas_sort_key(catalog_sort_key, ctx[w].old_sort_key, new)
              outcome == update_result(r, new)
          IN  /\ catalog_sort_key' = r.catalog
              /\ installs' =
                     IF r.ok
                     THEN installs \cup
                              {[worker |-> w, request |-> ctx[w].req.id,
                                attempt |-> ctx[w].restarts + 1,
                                old |-> ctx[w].old_sort_key, new |-> new]}
                     ELSE installs
              /\ sort_key' = [sort_key EXCEPT ![w] =
                     set_partition_sort_key(outcome, new, r.observed, @)]
              /\ ctx' = [ctx EXCEPT
                     ![w].update_result = outcome,
                     ![w].restarts =
                         IF outcome = "Ok" THEN @ ELSE @ + 1]
              /\ worker_pc' = [worker_pc EXCEPT ![w] = after_cas(outcome)]
              /\ UNCHANGED <<catalog_faults,
                             global_queue, rx, enqueued, parquet_files,
                             uploads, next_uuid, notified>>

\* update_catalog_parquet: one try of the create.  An error is retried.
update_catalog_parquet(w) ==
    /\ worker_pc[w] = "register"
    /\ \/ /\ catalog_faults > 0
          /\ catalog_faults' = catalog_faults - 1
          /\ ctx' = [ctx EXCEPT ![w].retried = @ \cup {"create"}]
          /\ worker_pc' = [worker_pc EXCEPT ![w] = after_create_error]
          /\ UNCHANGED <<global_queue, rx, enqueued, sort_key,
                         catalog_sort_key, parquet_files, uploads,
                         next_uuid, installs, notified>>
       \/ /\ parquet_files' = parquet_files \cup
                 {[object_store_id |-> ctx[w].object_store_id,
                   worker |-> w, request |-> ctx[w].req.id]}
          /\ worker_pc' = [worker_pc EXCEPT ![w] = "notify"]
          /\ UNCHANGED <<catalog_faults,
                         global_queue, rx, enqueued, ctx, sort_key,
                         catalog_sort_key, uploads, next_uuid, installs,
                         notified>>

\* Context::mark_complete: the observer is told, the job is over.
mark_complete(w) ==
    /\ worker_pc[w] = "notify"
    /\ notified' = notified \cup
           {[object_store_id |-> ctx[w].object_store_id, worker |-> w,
             request |-> ctx[w].req.id, restarts |-> ctx[w].restarts]}
    /\ ctx' = [ctx EXCEPT ![w] = Context_new(NoRequest)]
    /\ worker_pc' = [worker_pc EXCEPT ![w] = "recv"]
    /\ UNCHANGED <<catalog_faults,
                   global_queue, rx, enqueued, sort_key, catalog_sort_key,
                   parquet_files, uploads, next_uuid, installs>>

\* ---------------------------------------------------------- compactor filters
\* The post-classification filter
\* (compactor/src/components/post_classification_partition_filter/
\* possible_progress.rs) and the metrics wrapper of the partition filters
\* (compactor/src/components/partition_filter/metrics.rs).  Both apply
\* methods take &self and touch nothing but the wrapper's counters: each
\* call is one atomic action.
ErrorKinds == {"OutOfMemory", "Timeout", "Unknown"}

\* Result<bool, DynError>: `msg` is what the error's message names.
FilterOk(value) == [tag |-> "Ok", value |-> value, kind |-> "", msg |-> <<>>]
FilterErr(kind, msg) ==
    [tag |-> "Err", value |-> FALSE, kind |-> kind, msg |-> msg]

\* A ParquetFile, as far as the filter looks at it.
KeptFiles ==
    {f \in [file_size_bytes : 0..(MaxParquetBytes + 1),
            min_time : 0..1, max_time : 0..1] : f.min_time <= f.max_time}

\* FilesForProgress::is_empty
FilesForProgress_is_empty(progress) ==
    progress.upgrade = <<>> /\ progress.split_or_compact = <<>>

FilesForProgress ==
    [upgrade : {<<>>, <<1>>}, split_or_compact : {<<>>, <<2>>}]

\* The test of the loop over files_to_keep.
cannot_split(f, max_parquet_bytes) ==
    f.file_size_bytes >= max_parquet_bytes /\ f.min_time = f.max_time

\* The first file of files_to_keep the loop returns the error for.
RECURSIVE first_unsplittable(_, _, _)
first_unsplittable(files_to_keep, max_parquet_bytes, i) ==
    IF i > Len(files_to_keep) THEN 0
    ELSE IF cannot_split(files_to_keep[i], max_parquet_bytes) THEN i
    ELSE first_unsplittable(files_to_keep, max_parquet_bytes, i + 1)

PossibleProgressFilter_apply_value(max_parquet_bytes, partition_id, files_to_make_progress_on, files_to_keep) ==
    IF ~FilesForProgress_is_empty(files_to_make_progress_on)
    THEN FilterOk(TRUE)
    ELSE LET i == first_unsplittable(files_to_keep, max_parquet_bytes, 1)
         IN  IF i /= 0
             THEN FilterErr("OutOfMemory",
                            <<partition_id, max_parquet_bytes,
                              files_to_keep[i].min_time>>)
             ELSE FilterOk(FALSE)

NoProgressCall ==
    [max_parquet_bytes |-> 1, partition_id |-> 1,
     files_to_make_progress_on |-> [upgrade |-> <<>>,
                                    split_or_compact |-> <<>>],
     files_to_keep |-> <<>>, ret |-> FilterOk(FALSE), called |-> FALSE]

NoFilterCall == [res |-> FilterOk(FALSE), ret |-> FilterOk(FALSE),
                 called |-> FALSE]

FilterInitWith(call) ==
    /\ progress_call = call
    /\ pass_counter = 0
    /\ filter_counter = 0
    /\ error_counter = 0
    /\ filter_call = NoFilterCall

FilterInit == FilterInitWith(NoProgressCall)

\* PossibleProgressFilter::apply, on the filter and the arguments at hand.
PossibleProgressFilter_apply ==
    /\ ~progress_call.called
    /\ progress_call' =
           [progress_call EXCEPT
               !.ret = PossibleProgressFilter_apply_value(
                           progress_call.max_parquet_bytes,
                           progress_call.partition_id,
                           progress_call.files_to_make_progress_on,
                           progress_call.files_to_keep),
               !.called = TRUE]
    /\ UNCHANGED <<pass_counter, filter_counter, error_counter,
                   filter_call>>

\* What the inner filter of the wrapper may return.
InnerResults ==
    {FilterOk(TRUE), FilterOk(FALSE)}
        \cup {FilterErr(kind, <<>>) : kind \in ErrorKinds}

\* The counter the wrapper's match picks.
counter_of_lenient(res) ==
    IF res.tag = "Ok" /\ res.value THEN "pass" ELSE "filter"

counter_of(res) ==
    IF res.tag = "Err" THEN "error"
    ELSE IF res.value THEN "pass" ELSE "filter"

\* U64Counter::inc(1)
U64Counter_inc(counter) == counter + 1

\* MetricsPartitionFilterWrapper::apply: the inner filter is asked, one
\* counter is incremented, the inner result is returned.
MetricsPartitionFilterWrapper_apply(res) ==
    /\ pass_counter + filter_counter + error_counter < MaxFilterCalls
    /\ pass_counter' = IF counter_of(res) = "pass"
                       THEN U64Counter_inc(pass_counter) ELSE pass_counter
    /\ filter_counter' = IF counter_of(res) = "filter"
                         THEN U64Counter_inc(filter_counter)
                         ELSE filter_counter
    /\ error_counter' = IF counter_of(res) = "error"
                        THEN U64Counter_inc(error_counter)
                        ELSE error_counter
    /\ filter_call' = [res |-> res, ret |-> res, called |-> TRUE]
    /\ UNCHANGED progress_call

\* ------------------------------------------------ compactor: the driver
\* Result<_, DynError> of the driver's functions.  An error carries the
\* kind its classification gives, where it arose, and for a plan the
\* permits of the attempt that failed; the output of a plan carries the
\* permits of the run that produced it.
DriverErr(kind, from, p) ==
    [tag |-> "Err", kind |-> kind, from |-> from, permits |-> p]

PlanOutput(p) == [tag |-> "Ok", kind |-> "", from |-> "", permits |-> p]

DriverOk == PlanOutput(0)

NoResult == [tag |-> "None", kind |-> "", from |-> "", permits |-> 0]

\* timeout_with_progress_checking: the future completed, or the timeout
\* fired with or without a progress signal received.
timeout_with_progress_checking(fired, signalled) ==
    IF ~fired THEN "Completed"
    ELSE IF signalled THEN "SomeWorkTryAgain" ELSE "NoWorkTimeOutError"

\* The match of compact_partition on what the timeout wrapper returned.
compact_partition_result_hard(outcome, res) ==
    IF outcome = "Completed" THEN res
    ELSE DriverErr("Timeout", "timeout", 0)

compact_partition_result(outcome, res) ==
    CASE outcome = "NoWorkTimeOutError" -> DriverErr("Timeout", "timeout", 0)
      [] outcome = "SomeWorkTryAgain" -> DriverOk
      [] outcome = "Completed" -> res

\* One plan of a chunk inside run_plans: not polled yet, running under
\* its permits, waiting for the permits of another attempt (`res` is what
\* the last attempt gave), or finished.
NewPlan == [pc |-> "pending", requested_permits |-> 1, attempts |-> 0,
            res |-> NoResult]

\* execute_plan returned its output to run_plans.
DonePlan == [pc |-> "done", requested_permits |-> 0, attempts |-> 0,
             res |-> DriverOk]

Min2(a, b) == IF a <= b THEN a ELSE b

\* A ParquetFile: the round that made it (one less than the round at
\* hand for a file the round was calculated from), the range and the
\* branch it belongs to, its number there, and its compaction level.
ParquetFile(made_in, range, branch, n, level) ==
    [made_in |-> made_in, range |-> range, branch |-> branch, n |-> n,
     compaction_level |-> level]

\* The files of a branch of `size` files handed out by round `r`, all at
\* the start level.
BranchFiles(r, range, branch, size) ==
    [n \in 1..size |-> ParquetFile(r - 1, range, branch, n, 0)]

\* The branches of a range, as round_info_source may set them: None, or
\* up to workload.branches branches of the sizes the workload has.
RangeBranches(r, range) ==
    {None} \cup
    UNION {{Some([b \in 1..n |-> BranchFiles(r, range, b, sizes[b])]) :
               sizes \in [1..n -> workload.sizes]} :
           n \in 1..workload.branches}

\* The files_for_later of a range, as round_info_source may set them.
RangeFilesForLater(r, range) ==
    {IF n = 0 THEN None
     ELSE Some([k \in 1..n |-> ParquetFile(r - 1, range, 0, k, 0)]) :
        n \in workload.later}

\* A RangeInfo, as far as the driver looks at it.
RangeInfo(r, range) ==
    [branches : RangeBranches(r, range),
     files_for_later : RangeFilesForLater(r, range)]

\* The ranges round_info_source.calculate may answer with for round r.
RoundRanges(r, n) ==
    {rs \in [1..n -> UNION {RangeInfo(r, g) : g \in 1..n}] :
        \A g \in 1..n : rs[g] \in RangeInfo(r, g)}

\* FileClassification of a branch of `size` files, by a class of the
\* workload: the first files are to split or compact, then come the
\* files to upgrade, then the files to keep.
FileClassification(branch, class) ==
    LET size == Len(branch)
        upgrade == Min2(class.upgrade, size)
        keep == Min2(class.keep, size - upgrade)
        progress == size - upgrade - keep
    IN  [target_level |-> class.target_level,
         files_to_make_progress_on |->
             [split_or_compact |-> SubSeq(branch, 1, progress),
              upgrade |-> SubSeq(branch, progress + 1, progress + upgrade)],
         files_to_keep |-> SubSeq(branch, progress + upgrade + 1, size)]

\* The post-classification filter on a classification: an error, or
\* whether there is a file to make progress on.
post_classification_filter(classification) ==
    {"err"} \cup
    {IF FilesForProgress_is_empty(classification.files_to_make_progress_on)
     THEN "stop" ELSE "pass"}

\* ir_planner.create_plans: one plan for each file to split or compact,
\* and a single PlanIR::None when there is no such file.
create_plans(split_or_compact) ==
    [real |-> Len(split_or_compact),
     plans |-> IF split_or_compact = <<>> THEN 1
               ELSE Len(split_or_compact)]

\* What the catalog took in one commit.
Commit(to_delete, to_upgrade, to_create, target_level, changed) ==
    [delete |-> to_delete, upgrade |-> to_upgrade, create |-> to_create,
     target_level |-> target_level, changed |-> changed]

NewBranch ==
    [pc |-> "pending", plans |-> 0, lo |-> 1, hi |-> 0, plan |-> <<>>,
     uploads |-> 0, commits |-> 0, branch |-> <<>>, real |-> 0,
     target_level |-> 0, split_or_compact |-> <<>>, upgrade |-> <<>>,
     files_to_keep |-> <<>>, files_next |-> <<>>, committed |-> <<>>]

\* chunks.by_ref().take(df_semaphore.total_permits() * 4)
chunk_size(total) == total * 4

\* buffer_unordered(limit): the futures are polled in order, at most
\* `limit` of them in flight.
may_start(futures, i, limit) ==
    /\ futures[i].pc = "pending"
    /\ \A j \in 1..(i - 1) : futures[j].pc /= "pending"
    /\ Cardinality({j \in DOMAIN futures :
                       futures[j].pc \notin {"pending", "done"}}) < limit

DriverInitWith(total, gossip, load) ==
    /\ total_permits = total
    /\ workload = load
    /\ permits = 0
    /\ gossip_handle = gossip
    /\ job_pc = "start"
    /\ job_res = NoResult
    /\ progress_signals = 0
    /\ gossips = 0
    /\ try_pc = "start"
    /\ try_res = NoResult
    /\ round = 0
    /\ num_ranges = 0
    /\ range_no = 0
    /\ ranges = <<>>
    /\ branches = <<>>
    /\ catalog_commits = 0
    /\ sink = <<>>
    /\ scratchpad_cleaned = 0
    /\ plan_returned = [res |-> NoResult, attempts |-> 0]

\* A class of the workload: every file of the branch is to compact, or
\* every file is kept.
CompactAll == [target_level |-> 1, upgrade |-> 0, keep |-> 0]

KeepAll == [target_level |-> 1, upgrade |-> 0, keep |-> MaxPlans]

\* A partition whose branches are compacted whole or kept whole, whose
\* ranges hold no files for later before their branches ran, and whose
\* catalog no one else writes to.
Workload(max_ranges, max_branches, sizes) ==
    [ranges |-> max_ranges, branches |-> max_branches, sizes |-> sizes,
     classes |-> {CompactAll, KeepAll}, later |-> {0},
     concurrent |-> FALSE]

DriverInit == DriverInitWith(1, FALSE, Workload(1, 1, {1}))

\* More classes: one file, or every file, of the branch is upgraded and
\* the rest compacted, or one is upgraded and one kept.
UpgradeOne == [target_level |-> 2, upgrade |-> 1, keep |-> 0]

UpgradeAll == [target_level |-> 2, upgrade |-> MaxPlans + 1, keep |-> 0]

UpgradeAndKeep == [target_level |-> 1, upgrade |-> 1, keep |-> 1]

\* try_compact_partition is left: its locals and the futures in flight
\* are dropped, and with them the permits they hold.
drop_try_compact_partition ==
    /\ permits' = 0
    /\ round' = 0
    /\ num_ranges' = 0
    /\ range_no' = 0
    /\ ranges' = <<>>
    /\ branches' = <<>>

try_return(res) ==
    /\ try_pc' = "returned"
    /\ try_res' = res
    /\ drop_try_compact_partition

\* What try_compact_partition keeps over a step that is not about it.
try_locals == <<round, num_ranges, range_no, ranges, branches>>

\* compact_partition up to the first poll of try_compact_partition.
compact_partition_begin ==
    /\ job_pc = "start"
    /\ job_pc' = "running"
    /\ try_pc' = "fetch"
    /\ UNCHANGED <<fixed, plan_returned, permits, job_res, signals, try_res,
                   round, num_ranges, range_no, ranges, branches, catalog_commits,
                   sink, scratchpad_cleaned>>

\* The files and the partition info are fetched; no files, nothing to do.
fetch_partition ==
    /\ job_pc = "running" /\ try_pc = "fetch"
    /\ \/ \E kind \in ErrorKinds :
            try_return(DriverErr(kind, "partition_info", 0))
       \/ try_return(DriverOk)
       \/ try_pc' = "filter" /\ UNCHANGED <<try_res, permits, try_locals>>
    /\ UNCHANGED <<fixed, plan_returned, job_pc, job_res, signals,
                   catalog_commits, sink, scratchpad_cleaned>>

\* partition_filter.apply(..).await?
partition_filter_apply ==
    /\ job_pc = "running" /\ try_pc = "filter"
    /\ \/ \E kind \in ErrorKinds :
            try_return(DriverErr(kind, "partition_filter", 0))
       \/ try_return(DriverOk)
       \/ try_pc' = "calculate"
          /\ UNCHANGED <<try_res, permits, try_locals>>
    /\ UNCHANGED <<fixed, plan_returned, job_pc, job_res, signals,
                   catalog_commits, sink, scratchpad_cleaned>>

\* round_info_source.calculate(..).await? at the head of the round loop:
\* an error, no more work, or a round of one or more ranges.
calculate ==
    /\ job_pc = "running" /\ try_pc = "calculate"
    /\ \/ \E kind \in ErrorKinds :
            try_return(DriverErr(kind, "round_info", 0))
       \/ try_return(DriverOk)
       \/ /\ round < MaxRounds
          /\ round' = round + 1
          /\ num_ranges' \in 1..workload.ranges
          /\ ranges' \in RoundRanges(round', num_ranges')
          /\ range_no' = 1
          /\ try_pc' = "range"
          /\ UNCHANGED <<try_res, permits, branches>>
    /\ UNCHANGED <<fixed, plan_returned, job_pc, job_res, signals,
                   catalog_commits, sink, scratchpad_cleaned>>

\* The head of the loop over the ranges: the range's branches are taken;
\* a range without branches is passed over.
next_range_or_round ==
    IF range_no < num_ranges
    THEN range_no' = range_no + 1 /\ try_pc' = "range"
    ELSE range_no' = range_no /\ try_pc' = "calculate"

\* Option::take on range.branches
take(option) == [taken |-> option, left |-> None]

take_branches ==
    /\ job_pc = "running" /\ try_pc = "range"
    /\ LET took == take(ranges[range_no].branches) IN
       /\ ranges' = [ranges EXCEPT ![range_no].branches = took.left]
       /\ IF took.taken = None
          THEN /\ branches' = <<>>
               /\ next_range_or_round
          ELSE /\ \E bs \in took.taken :
                    branches' = [b \in DOMAIN bs |->
                                    [NewBranch EXCEPT !.branch = bs[b]]]
               /\ try_pc' = "branches"
               /\ UNCHANGED range_no
    /\ UNCHANGED <<fixed, plan_returned, permits, job_pc, job_res, signals,
                   try_res, round, num_ranges, catalog_commits, sink,
                   scratchpad_cleaned>>

\* The chunk of a branch that starts at plan `lo`.
with_chunk(br, lo) ==
    [br EXCEPT !.pc = "load", !.lo = lo,
               !.hi = Min2(br.plans, lo + chunk_size(total_permits) - 1),
               !.plan = <<>>]

\* execute_branch from its first poll to the first chunk: classification,
\* the post-classification filter, the plans.  With no plan there is no
\* chunk, and the files to keep are returned.
classify(b) ==
    /\ job_pc = "running" /\ try_pc = "branches"
    /\ b \in DOMAIN branches
    /\ may_start(branches, b, total_permits)
    /\ \E class \in workload.classes :
       LET classification == FileClassification(branches[b].branch, class)
           progress == classification.files_to_make_progress_on
           planned == create_plans(progress.split_or_compact)
       IN
       \E filter \in post_classification_filter(classification) :
       \/ /\ filter = "err"
          /\ \E kind \in ErrorKinds :
               try_return(DriverErr(kind, "post_classification", 0))
       \/ /\ filter = "stop"
          /\ branches' =
                 [branches EXCEPT
                     ![b].pc = "done",
                     ![b].files_to_keep = classification.files_to_keep,
                     ![b].files_next = classification.files_to_keep]
          /\ UNCHANGED <<try_pc, try_res, permits, round, num_ranges,
                         range_no, ranges>>
       \/ /\ filter = "pass"
          /\ LET classified ==
                     [branches[b] EXCEPT
                         !.plans = planned.plans,
                         !.real = planned.real,
                         !.target_level = classification.target_level,
                         !.split_or_compact = progress.split_or_compact,
                         !.upgrade = progress.upgrade,
                         !.files_to_keep = classification.files_to_keep]
             IN  branches' =
                     [branches EXCEPT
                         ![b] = IF planned.plans = 0
                                THEN [classified EXCEPT
                                         !.pc = "done",
                                         !.files_next =
                                             classified.files_to_keep]
                                ELSE with_chunk(classified, 1)]
          /\ UNCHANGED <<try_pc, try_res, permits, round, num_ranges,
                         range_no, ranges>>
    /\ UNCHANGED <<fixed, plan_returned, job_pc, job_res, signals,
                   catalog_commits, sink, scratchpad_cleaned>>

\* run_plans: the plans of the chunk that execute_plan is called for,
\* a PlanIR::None filtered out.
chunk_plans(br) == IF br.real = 0 THEN 0 ELSE br.hi - br.lo + 1

\* run_plans: the inputs of the chunk are loaded to the scratchpad, then
\* its plans are run; with no plan to run it returns at once.
load_to_scratchpad(b) ==
    /\ job_pc = "running" /\ try_pc = "branches"
    /\ b \in DOMAIN branches
    /\ branches[b].pc = "load"
    /\ LET chunk == chunk_plans(branches[b]) IN
       branches' =
           [branches EXCEPT
               ![b].pc = IF chunk = 0 THEN "upload" ELSE "plans",
               ![b].plan = [i \in 1..chunk |-> NewPlan]]
    /\ UNCHANGED <<fixed, plan_returned, permits, job_pc, job_res, signals,
                   try_pc, try_res, round, num_ranges, range_no, ranges,
                   catalog_commits, sink, scratchpad_cleaned>>

\* execute_plan: df_semaphore.acquire_many(requested_permits)
acquire_many(b, i) ==
    /\ job_pc = "running" /\ try_pc = "branches"
    /\ b \in DOMAIN branches
    /\ branches[b].pc = "plans"
    /\ i \in DOMAIN branches[b].plan
    /\ LET pl == branches[b].plan[i] IN
       /\ \/ may_start(branches[b].plan, i, total_permits)
          \/ pl.pc = "acquire"
       /\ permits + pl.requested_permits <= total_permits
       /\ permits' = permits + pl.requested_permits
       /\ branches' = [branches EXCEPT
                          ![b].plan[i].pc = "run",
                          ![b].plan[i].attempts = @ + 1]
    /\ UNCHANGED <<fixed, plan_returned, job_pc, job_res, signals, try_pc,
                   try_res, round, num_ranges, range_no, ranges, catalog_commits,
                   sink, scratchpad_cleaned>>

\* A drop that gives nothing back to the semaphore.
drop_permit_kept(acquired, requested) == acquired

\* execute_plan: drop(permit) gives the permits of the attempt back.
drop_permit(acquired, requested) == acquired - requested

\* What execute_plan does with the result of an attempt: an attempt that
\* exhausted its resources is repeated with twice the permits while the
\* semaphore has that many; any other result ends the loop.
after_attempt_retry_all(res, requested, total) ==
    IF res.tag = "Err" /\ requested * 2 <= total
    THEN [pc |-> "acquire", requested_permits |-> requested * 2]
    ELSE [pc |-> "done", requested_permits |-> requested]

after_attempt_once(res, requested, total) ==
    [pc |-> "done", requested_permits |-> requested]

after_attempt(res, requested, total) ==
    IF res.tag = "Err" /\ res.kind = "OutOfMemory"
       /\ requested * 2 <= total
    THEN [pc |-> "acquire", requested_permits |-> requested * 2]
    ELSE [pc |-> "done", requested_permits |-> requested]

\* execute_plan under its permits: the planner makes the physical plan,
\* the plan is run, the permits are given back.  An error of the planner
\* leaves execute_plan at once.  After the last attempt the plan's inputs
\* are cleaned from the scratchpad and its result is returned: an error
\* ends run_plans, the branch and try_compact_partition; the last output
\* of a chunk ends run_plans.
run_plan(b, i) ==
    /\ job_pc = "running" /\ try_pc = "branches"
    /\ b \in DOMAIN branches
    /\ branches[b].pc = "plans"
    /\ i \in DOMAIN branches[b].plan
    /\ branches[b].plan[i].pc = "run"
    /\ LET requested == branches[b].plan[i].requested_permits
           attempts == branches[b].plan[i].attempts
           finished == [branches[b].plan EXCEPT ![i] = DonePlan] IN
       \/ \E kind \in ErrorKinds :
            LET res == DriverErr(kind, "planner", requested) IN
            /\ try_return(res)
            /\ plan_returned' = [res |-> res, attempts |-> attempts]
       \/ \E res \in {PlanOutput(requested)}
                  \cup {DriverErr(kind, "plan", requested) :
                           kind \in ErrorKinds} :
            LET next == after_attempt(res, requested, total_permits) IN
            IF next.pc = "acquire"
            THEN /\ branches' =
                        [branches EXCEPT
                            ![b].plan[i].pc = "acquire",
                            ![b].plan[i].requested_permits =
                                next.requested_permits,
                            ![b].plan[i].res = res]
                 /\ permits' = drop_permit(permits, requested)
                 /\ UNCHANGED <<try_pc, try_res, round, num_ranges,
                                range_no, ranges, plan_returned>>
            ELSE /\ plan_returned' = [res |-> res, attempts |-> attempts]
                 /\ IF res.tag = "Err"
                    THEN try_return(res)
                    ELSE /\ branches' =
                                [branches EXCEPT
                                    ![b].plan = finished,
                                    ![b].pc =
                                        IF \A j \in DOMAIN finished :
                                               finished[j].pc = "done"
                                        THEN "upload" ELSE "plans"]
                         /\ permits' = drop_permit(permits, requested)
                         /\ UNCHANGED <<try_pc, try_res, round,
                                        num_ranges, range_no, ranges>>
    /\ UNCHANGED <<fixed, job_pc, job_res, signals, catalog_commits, sink,
                   scratchpad_cleaned>>

\* upload_files_to_object_store, then clean_written_from_scratchpad.
upload_files_to_object_store(b) ==
    /\ job_pc = "running" /\ try_pc = "branches"
    /\ b \in DOMAIN branches
    /\ branches[b].pc = "upload"
    /\ branches' = [branches EXCEPT ![b].pc = "commit",
                                    ![b].uploads = @ + 1]
    /\ UNCHANGED <<fixed, plan_returned, permits, job_pc, job_res, signals,
                   try_pc, try_res, round, num_ranges, range_no, ranges,
                   catalog_commits, sink, scratchpad_cleaned>>

\* The catalog state fetched in update_catalog against the state saved
\* at the head of execute_branch: whether another writer changed the
\* branch's files in between.
CatalogChanges == IF workload.concurrent THEN BOOLEAN ELSE {FALSE}

\* changed_files_filter.apply(saved, current): whether the states agree.
changed_files_filter(changed) == ~changed

\* An update_catalog that commits only what the filter lets through.
after_changed_files_strict(unchanged) ==
    IF unchanged THEN "commit" ELSE "discard"

\* update_catalog: the filter's answer is bound to `_ignore`.
after_changed_files(unchanged) == "commit"

\* files_to_delete of the chunk at hand: the input files of its plans.
chunk_inputs(br) ==
    IF br.real = 0 THEN <<>> ELSE SubSeq(br.split_or_compact, br.lo, br.hi)

\* The files the commit of the chunk creates: one for each plan that ran,
\* at the target level.
chunk_outputs(br, r, range, b) ==
    IF br.real = 0 THEN <<>>
    ELSE [i \in 1..(br.hi - br.lo + 1) |->
             ParquetFile(r, range, b, br.lo + i - 1, br.target_level)]

\* An update_catalog that returns the files to upgrade as they came.
upgraded_unchanged(files_to_upgrade, target_level) == files_to_upgrade

\* update_catalog: the files to upgrade, with their level set.
upgraded(files_to_upgrade, target_level) ==
    [i \in DOMAIN files_to_upgrade |->
        [files_to_upgrade[i] EXCEPT !.compaction_level = target_level]]

\* An execute_branch that hands its upgrade list to every chunk.
upgrade_for_every_chunk(upgrade) == upgrade

\* execute_branch after update_catalog: upgrade = Vec::new()
upgrade_for_next_chunk(upgrade) == <<>>

\* What follows update_catalog in execute_branch, by its result.
after_commit_always(committed) == {"gossip", "signal"}

after_commit(committed) == IF committed THEN {"gossip", "signal"} ELSE {}

\* update_catalog and what follows it without another await: one commit
\* for the chunk, then the gossip broadcast, the emptied upgrade list,
\* the progress signal, and the next chunk if plans are left.
update_catalog(b) ==
    /\ job_pc = "running" /\ try_pc = "branches"
    /\ b \in DOMAIN branches
    /\ branches[b].pc = "commit"
    /\ \E changed \in CatalogChanges :
       \E answered \in BOOLEAN : \E sent \in BOOLEAN :
         LET br == branches[b]
             issued == after_changed_files(
                           changed_files_filter(changed)) = "commit"
             committed == issued /\ answered
             then == after_commit(committed)
             files_to_delete == chunk_inputs(br)
             created_files == chunk_outputs(br, round, range_no, b)
             upgraded_files == upgraded(br.upgrade, br.target_level)
             updated ==
                 [br EXCEPT
                     !.commits = @ + 1,
                     !.committed =
                         Append(@, Commit(files_to_delete, br.upgrade,
                                          created_files, br.target_level,
                                          changed)),
                     !.upgrade = upgrade_for_next_chunk(@),
                     !.files_next = @ \o created_files \o upgraded_files]
         IN
         /\ answered \/ sent
         /\ catalog_commits' =
                IF committed THEN catalog_commits + 1 ELSE catalog_commits
         /\ gossips' = IF "gossip" \in then /\ gossip_handle
                       THEN gossips + 1 ELSE gossips
         /\ progress_signals' = IF "signal" \in then /\ sent
                                THEN progress_signals + 1
                                ELSE progress_signals
         /\ IF ~committed
            THEN \E kind \in ErrorKinds :
                     try_return(DriverErr(kind, "commit", 0))
            ELSE IF ~sent
            THEN try_return(DriverErr("Unknown", "signal", 0))
            ELSE /\ branches' =
                        [branches EXCEPT
                            ![b] = IF br.hi < br.plans
                                   THEN with_chunk(updated, br.hi + 1)
                                   ELSE [updated EXCEPT
                                            !.pc = "done",
                                            !.files_next =
                                                @ \o br.files_to_keep]]
                 /\ UNCHANGED <<try_pc, try_res, permits, round,
                                num_ranges, range_no, ranges>>
    /\ UNCHANGED <<fixed, plan_returned, job_pc, job_res, sink,
                   scratchpad_cleaned>>

\* try_collect on the branches of the range: all returned Ok, their
\* outputs go to the range's files_for_later (here in the order of the
\* branches, whichever finished first) and the loop moves on.
unwrap_or(option, default) ==
    IF option = None THEN default ELSE CHOOSE x \in option : TRUE

\* An extend that forgets what the range held.
extend_replacing(files_for_later, branches_output) == branches_output

\* files_for_later.extend(branches_output)
extend(files_for_later, branches_output) ==
    files_for_later \o branches_output

collect_branches ==
    /\ job_pc = "running" /\ try_pc = "branches"
    /\ \A b \in DOMAIN branches : branches[b].pc = "done"
    /\ LET branches_output ==
               Concat([b \in DOMAIN branches |-> branches[b].files_next])
           files_for_later ==
               unwrap_or(take(ranges[range_no].files_for_later).taken, <<>>)
       IN  ranges' = [ranges EXCEPT
                         ![range_no].files_for_later =
                             Some(extend(files_for_later, branches_output))]
    /\ next_range_or_round
    /\ branches' = <<>>
    /\ UNCHANGED <<fixed, plan_returned, permits, job_pc, job_res, signals,
                   try_res, round, num_ranges, catalog_commits, sink,
                   scratchpad_cleaned>>

\* The partition timeout fires while try_compact_partition is running:
\* the future is dropped with everything in flight.
timeout ==
    /\ job_pc = "running" /\ try_pc \notin {"returned", "dropped"}
    /\ job_res' = compact_partition_result(
                      timeout_with_progress_checking(TRUE,
                                                     progress_signals > 0),
                      NoResult)
    /\ job_pc' = "record"
    /\ try_pc' = "dropped"
    /\ drop_try_compact_partition
    /\ UNCHANGED <<fixed, plan_returned, signals, try_res, catalog_commits,
                   sink, scratchpad_cleaned>>

\* try_compact_partition returned before the timeout.
compact_partition_completed ==
    /\ job_pc = "running" /\ try_pc = "returned"
    /\ job_res' = compact_partition_result(
                      timeout_with_progress_checking(FALSE,
                                                     progress_signals > 0),
                      try_res)
    /\ job_pc' = "record"
    /\ UNCHANGED <<fixed, plan_returned, permits, signals, try_pc, try_res,
                   round, num_ranges, range_no, ranges, branches, catalog_commits,
                   sink, scratchpad_cleaned>>

\* compaction_job_done_sink.record(job, res)
record_skip_ok(res) == IF res.tag = "Err" THEN <<res>> ELSE <<>>

record(res) == <<res>>

job_done_sink ==
    /\ job_pc = "record"
    /\ sink' = sink \o record(job_res)
    /\ job_pc' = "clean"
    /\ UNCHANGED <<fixed, plan_returned, permits, job_res, signals, try_pc,
                   try_res, round, num_ranges, range_no, ranges, branches,
                   catalog_commits, scratchpad_cleaned>>

\* scratchpad.clean()
scratchpad_clean ==
    /\ job_pc = "clean"
    /\ scratchpad_cleaned' = scratchpad_cleaned + 1
    /\ job_pc' = "done"
    /\ UNCHANGED <<fixed, plan_returned, permits, job_res, signals, try_pc,
                   try_res, round, num_ranges, range_no, ranges, branches,
                   catalog_commits, sink>>

\* ------------------------------------------------- the persist channels
\* The last sender of a worker's own queue is dropped: what is buffered
\* can still be received.
close_rx(w) ==
    /\ ~rx_closed[w]
    /\ rx_closed' = [rx_closed EXCEPT ![w] = TRUE]
    /\ UNCHANGED global_closed

\* The global work queue is closed.
close_global ==
    /\ ~global_closed
    /\ global_closed' = TRUE
    /\ UNCHANGED rx_closed

\* ------------------------------------------- router: schema_validator.rs
\* The table and column names of the tests.
TableNames == {"bananas", "platanos", "nope"}

ColumnNames == {"time", "val"}

\* The column sets a cached table may hold: a table just created holds
\* none.
CachedColumns == {{}, {"time"}, {"time", "val"}}

\* The cached schemas: any of the tables, each with its columns, and the
\* two limits, which nothing ties to what the schema holds already.
NamespaceSchemas ==
    UNION {[tables : [names -> CachedColumns],
            max_tables : 1..MaxTableLimit,
            max_columns_per_table : 1..MaxColumnLimit] :
              names \in SUBSET TableNames}

\* The writes: up to MaxWriteTables tables, none twice, each with the
\* columns of its batch.
ColumnNamesByTable ==
    UNION {{w \in [1..n -> [table_name : TableNames,
                            column_names : SUBSET ColumnNames \ {{}}]] :
               \A i, j \in 1..n : i # j => w[i].table_name # w[j].table_name} :
           n \in 0..MaxWriteTables}

\* Result<(), CachedServiceProtectionLimit>
LimitOk == [tag |-> "Ok"]

CachedServiceProtectionLimit_Column(table_name, existing_column_count, merged_column_count, max) ==
    [tag |-> "Column", table_name |-> table_name,
     existing_column_count |-> existing_column_count,
     merged_column_count |-> merged_column_count,
     max_columns_per_table |-> max]

CachedServiceProtectionLimit_Table(existing_table_count, merged_table_count, max) ==
    [tag |-> "Table", existing_table_count |-> existing_table_count,
     merged_table_count |-> merged_table_count,
     table_count_limit |-> max]

NotValidated == [tag |-> "None"]

\* A validate_column_limit that enforces the limit on every write.
validate_column_limit_always(table_name, existing_columns, column_names, max_columns_per_table) ==
    LET merged_column_count ==
            Cardinality(existing_columns \cup column_names)
    IN  IF merged_column_count > max_columns_per_table
        THEN CachedServiceProtectionLimit_Column(
                 table_name, Cardinality(existing_columns),
                 merged_column_count, max_columns_per_table)
        ELSE LimitOk

\* validate_column_limit: the limit binds only a write that adds columns.
validate_column_limit(table_name, existing_columns, column_names, max_columns_per_table) ==
    LET existing_column_count == Cardinality(existing_columns)
        merged_column_count ==
            Cardinality(existing_columns \cup column_names)
        columns_were_added_in_this_batch ==
            merged_column_count > existing_column_count
        column_limit_exceeded ==
            merged_column_count > max_columns_per_table
    IN  IF columns_were_added_in_this_batch /\ column_limit_exceeded
        THEN CachedServiceProtectionLimit_Column(
                 table_name, existing_column_count, merged_column_count,
                 max_columns_per_table)
        ELSE LimitOk

\* The for loop of validate_schema_limits over what the iterator has
\* left, with new_tables as counted so far.
RECURSIVE validate_schema_limits_from(_, _, _)
validate_schema_limits_from(left, schema, new_tables) ==
    IF left = <<>> THEN LimitOk
    ELSE
    LET table_name == Head(left).table_name
        column_names == Head(left).column_names
    IN  IF table_name \in DOMAIN schema.tables
        THEN LET checked ==
                     validate_column_limit(table_name,
                                           schema.tables[table_name],
                                           column_names,
                                           schema.max_columns_per_table)
             IN  IF checked # LimitOk THEN checked
                 ELSE validate_schema_limits_from(Tail(left), schema,
                                                  new_tables)
        ELSE IF Cardinality(column_names) > schema.max_columns_per_table
        THEN CachedServiceProtectionLimit_Column(
                 table_name, 0, Cardinality(column_names),
                 schema.max_columns_per_table)
        ELSE LET merged_table_count ==
                     Cardinality(DOMAIN schema.tables) + new_tables + 1
             IN  IF merged_table_count > schema.max_tables
                 THEN CachedServiceProtectionLimit_Table(
                          Cardinality(DOMAIN schema.tables),
                          merged_table_count, schema.max_tables)
                 ELSE validate_schema_limits_from(Tail(left), schema,
                                                  new_tables + 1)

validate_schema_limits(names_by_table, schema) ==
    validate_schema_limits_from(names_by_table, schema, 0)

RouterInitWith(schema, write) ==
    /\ namespace_schema = schema
    /\ column_names_by_table = write
    /\ limit_result = NotValidated
    /\ service_limit_hit_tables = 0
    /\ service_limit_hit_columns = 0

\* An empty namespace and a write that names no table.
RouterInit ==
    RouterInitWith([tables |-> <<>>, max_tables |-> 1,
                    max_columns_per_table |-> 1], <<>>)

\* SchemaValidator::validate_service_limits: validate_schema_limits, and
\* record_service_protection_limit_error on an error.
validate_service_limits ==
    /\ limit_result = NotValidated
    /\ limit_result' = validate_schema_limits(column_names_by_table,
                                              namespace_schema)
    /\ service_limit_hit_tables' =
           IF limit_result'.tag = "Table"
           THEN service_limit_hit_tables + 1 ELSE service_limit_hit_tables
    /\ service_limit_hit_columns' =
           IF limit_result'.tag = "Column"
           THEN service_limit_hit_columns + 1
           ELSE service_limit_hit_columns
    /\ UNCHANGED <<namespace_schema, column_names_by_table>>

\* ---------------------------------------------------------- specifications
all_vars == <<vars, replay_vars, worker_vars, channel_vars, filter_vars,
              driver_vars, router_vars>>

\* What the actions of one component leave alone.
beside_partition == <<replay_vars, worker_vars, channel_vars, filter_vars,
                      driver_vars, router_vars>>
beside_replay == <<vars, worker_vars, channel_vars, filter_vars, driver_vars,
                   router_vars>>
beside_worker == <<vars, replay_vars, channel_vars, filter_vars, driver_vars,
                   router_vars>>
beside_filter == <<vars, replay_vars, worker_vars, channel_vars, driver_vars,
                   router_vars>>
beside_driver == <<vars, replay_vars, worker_vars, channel_vars, filter_vars,
                   router_vars>>
beside_channel == <<vars, replay_vars, worker_vars, filter_vars, driver_vars,
                    router_vars>>
beside_router == <<vars, replay_vars, worker_vars, channel_vars, filter_vars,
                   driver_vars>>

\* The namespace: every partition takes every call; writers hand out
\* one-row batches with increasing sequence numbers.
Init ==
    /\ \E max \in 1..NumPartitions : InitWith(max)
    /\ ReplayInit /\ may_fail = FALSE
    /\ DriverInit
    /\ WorkerInit
    /\ FilterInit
    /\ RouterInit

Next ==
    \/ /\ \E p \in Partitions :
            buffer_write(p, <<Row(1, nwrites + 1)>>, nwrites + 1)
       /\ UNCHANGED beside_partition
    \/ /\ \E p \in Partitions : get_query_data(p, Columns)
       /\ UNCHANGED beside_partition
    \/ /\ \E p \in Partitions : mark_persisting(p)
       /\ UNCHANGED beside_partition
    \/ /\ \E p \in Partitions : \E batch \in handles[p] :
            mark_persisted(p, batch)
       /\ UNCHANGED beside_partition

Spec == Init /\ [][Next]_all_vars

\* One partition in depth, never short of a permit: batches of one or two
\* rows, sequence numbers in any order (repeats included), every projection.
ThePartition == CHOOSE p \in Partitions : TRUE

PartitionNext ==
    \/ /\ \E s \in SeqNums : \E mb \in Batches(nwrites + 1) :
            buffer_write(ThePartition, mb, s)
       /\ UNCHANGED beside_partition
    \/ /\ \E projection \in Projections :
            get_query_data(ThePartition, projection)
       /\ UNCHANGED beside_partition
    \/ /\ mark_persisting(ThePartition)
       /\ UNCHANGED beside_partition
    \/ /\ \E batch \in handles[ThePartition] :
            mark_persisted(ThePartition, batch)
       /\ UNCHANGED beside_partition

PartitionInit ==
    /\ InitWith(NumPartitions)
    /\ ReplayInit /\ may_fail = FALSE
    /\ DriverInit
    /\ WorkerInit
    /\ FilterInit
    /\ RouterInit

PartitionSpec == PartitionInit /\ [][PartitionNext]_all_vars

\* One partition whose writers may also hand over a batch the data buffer
\* refuses.
BufferErrorNext ==
    \/ /\ \E s \in SeqNums :
            \E mb \in Batches(nwrites + 1) \cup {ConflictingBatch} :
                buffer_write(ThePartition, mb, s)
       /\ UNCHANGED beside_partition
    \/ /\ \E projection \in Projections :
            get_query_data(ThePartition, projection)
       /\ UNCHANGED beside_partition
    \/ /\ mark_persisting(ThePartition)
       /\ UNCHANGED beside_partition
    \/ /\ \E batch \in handles[ThePartition] :
            mark_persisted(ThePartition, batch)
       /\ UNCHANGED beside_partition

BufferErrorSpec == PartitionInit /\ [][BufferErrorNext]_all_vars

\* WAL replay against a healthy ingest state and collaborators that may
\* fail: an earlier run leaves a WAL behind, then replay runs on it, and
\* may run again after it returned Ok.
ReplayNext ==
    \/ wal_rotate /\ UNCHANGED beside_replay
    \/ (\E ops \in WalBatches(MaxWalOps) : wal_write(ops))
           /\ UNCHANGED beside_replay
    \/ replay /\ UNCHANGED beside_replay
    \/ open_segment /\ UNCHANGED beside_replay
    \/ read_batch /\ UNCHANGED beside_replay
    \/ decode_op /\ UNCHANGED beside_replay
    \/ poll_ingest_state /\ UNCHANGED beside_replay
    \/ apply_op /\ UNCHANGED beside_replay
    \/ match_result /\ UNCHANGED beside_replay
    \/ delete_empty /\ UNCHANGED beside_replay
    \/ persist /\ UNCHANGED beside_replay
    \/ delete /\ UNCHANGED beside_replay

WalReplayInit ==
    /\ InitWith(NumPartitions)
    /\ ReplayInit /\ may_fail = TRUE
    /\ DriverInit
    /\ WorkerInit
    /\ FilterInit
    /\ RouterInit

ReplaySpec == WalReplayInit /\ [][ReplayNext]_all_vars

\* WAL replay against collaborators that do not fail, while other tasks
\* set and clear the errors of the ingest state.  The runtime keeps
\* scheduling the replay task: its back-off sleep always ends.
GateNext ==
    \/ ReplayNext
    \/ (\E e \in IngestStateError : ingest_state_set(e))
           /\ UNCHANGED beside_replay
    \/ (\E e \in IngestStateError : ingest_state_unset(e))
           /\ UNCHANGED beside_replay

GateInit ==
    /\ InitWith(NumPartitions)
    /\ ReplayInit /\ may_fail = FALSE
    /\ DriverInit
    /\ WorkerInit
    /\ FilterInit
    /\ RouterInit

GateSpec ==
    GateInit /\ [][GateNext]_all_vars /\ WF_all_vars(ReplayNext)

\* Two persist workers on the requests of one partition.
WorkerNext ==
    \/ /\ \E dest \in Workers \cup {"global"} : \E data \in SUBSET Tags :
            queue_persist(dest, data)
       /\ UNCHANGED beside_worker
    \/ (\E w \in Workers : recv(w)) /\ UNCHANGED beside_worker
    \/ (\E w \in Workers : compact(w)) /\ UNCHANGED beside_worker
    \/ (\E w \in Workers : upload(w)) /\ UNCHANGED beside_worker
    \/ (\E w \in Workers : update_catalog_sort_key(w))
           /\ UNCHANGED beside_worker
    \/ (\E w \in Workers : update_catalog_parquet(w))
           /\ UNCHANGED beside_worker
    \/ (\E w \in Workers : mark_complete(w)) /\ UNCHANGED beside_worker

WorkerSpecInit ==
    /\ InitWith(NumPartitions)
    /\ ReplayInit /\ may_fail = FALSE
    /\ DriverInit
    /\ WorkerInit
    /\ FilterInit
    /\ RouterInit

WorkerSpec == WorkerSpecInit /\ [][WorkerNext]_all_vars

\* The workers with one request each in their own queues, against a
\* catalog that answers some calls with an error before it recovers.  The
\* runtime keeps scheduling every worker task: its back-off sleeps always
\* end.
WorkerStep(w) ==
    /\ \/ recv(w) \/ compact(w) \/ upload(w) \/ update_catalog_sort_key(w)
       \/ update_catalog_parquet(w) \/ mark_complete(w)
    /\ UNCHANGED beside_worker

RequestOf(w, data) == [id |-> IF w = "A" THEN 1 ELSE 2, data |-> data]

RetryInit ==
    /\ InitWith(NumPartitions)
    /\ ReplayInit /\ may_fail = FALSE
    /\ DriverInit
    /\ \E data \in [Workers -> SUBSET Tags] :
           WorkerInitWith(MaxCatalogErrors,
                          [w \in Workers |-> <<RequestOf(w, data[w])>>])
    /\ FilterInit
    /\ RouterInit

RetryNext == \E w \in Workers : WorkerStep(w)

RetrySpec ==
    /\ RetryInit /\ [][RetryNext]_all_vars
    /\ \A w \in Workers : WF_all_vars(WorkerStep(w))

\* The workers while requests are enqueued and the channels are closed
\* under them; the requests carry no tag column, so no sort key changes.
QueueNext ==
    \/ /\ \E dest \in Workers \cup {"global"} : queue_persist(dest, {})
       /\ UNCHANGED beside_worker
    \/ (\E w \in Workers : recv(w)) /\ UNCHANGED beside_worker
    \/ (\E w \in Workers : compact(w)) /\ UNCHANGED beside_worker
    \/ (\E w \in Workers : upload(w)) /\ UNCHANGED beside_worker
    \/ (\E w \in Workers : update_catalog_sort_key(w))
           /\ UNCHANGED beside_worker
    \/ (\E w \in Workers : update_catalog_parquet(w))
           /\ UNCHANGED beside_worker
    \/ (\E w \in Workers : mark_complete(w)) /\ UNCHANGED beside_worker
    \/ (\E w \in Workers : close_rx(w)) /\ UNCHANGED beside_channel
    \/ close_global /\ UNCHANGED beside_channel

QueueSpec ==
    /\ WorkerSpecInit /\ [][QueueNext]_all_vars
    /\ \A w \in Workers : WF_all_vars(WorkerStep(w))

\* The post-classification filter on every branch it may be handed.
RECURSIVE SeqsUpTo(_, _)
SeqsUpTo(S, n) ==
    IF n = 0 THEN {<<>>}
    ELSE LET shorter == SeqsUpTo(S, n - 1)
         IN  shorter \cup {Append(s, x) : s \in shorter, x \in S}

ProgressInit ==
    /\ InitWith(NumPartitions)
    /\ ReplayInit /\ may_fail = FALSE
    /\ DriverInit
    /\ WorkerInit
    /\ RouterInit
    /\ \E max_parquet_bytes \in 1..MaxParquetBytes :
       \E partition_id \in 1..2 :
       \E files_to_make_progress_on \in FilesForProgress :
       \E files_to_keep \in SeqsUpTo(KeptFiles, MaxKeep) :
           FilterInitWith(
               [max_parquet_bytes |-> max_parquet_bytes,
                partition_id |-> partition_id,
                files_to_make_progress_on |-> files_to_make_progress_on,
                files_to_keep |-> files_to_keep,
                ret |-> FilterOk(FALSE), called |-> FALSE])

ProgressNext == PossibleProgressFilter_apply /\ UNCHANGED beside_filter

ProgressSpec == ProgressInit /\ [][ProgressNext]_all_vars

\* The metrics wrapper around an inner filter that may return anything.
MetricsNext ==
    /\ \E res \in InnerResults : MetricsPartitionFilterWrapper_apply(res)
    /\ UNCHANGED beside_filter

MetricsInit ==
    /\ InitWith(NumPartitions)
    /\ ReplayInit /\ may_fail = FALSE
    /\ DriverInit
    /\ WorkerInit
    /\ FilterInit
    /\ RouterInit

MetricsSpec == MetricsInit /\ [][MetricsNext]_all_vars

\* One compaction job under the partition timeout, with collaborators
\* that may fail: a semaphore of one permit (chunks of four plans, one
\* future in flight) or of two (branches and plans side by side, a second
\* attempt for a plan).
DriverNext ==
    \/ compact_partition_begin /\ UNCHANGED beside_driver
    \/ fetch_partition /\ UNCHANGED beside_driver
    \/ partition_filter_apply /\ UNCHANGED beside_driver
    \/ calculate /\ UNCHANGED beside_driver
    \/ take_branches /\ UNCHANGED beside_driver
    \/ /\ \E b \in 1..MaxBranches : classify(b)
       /\ UNCHANGED beside_driver
    \/ /\ \E b \in 1..MaxBranches : load_to_scratchpad(b)
       /\ UNCHANGED beside_driver
    \/ /\ \E b \in 1..MaxBranches : \E i \in 1..MaxPlans :
            acquire_many(b, i)
       /\ UNCHANGED beside_driver
    \/ /\ \E b \in 1..MaxBranches : \E i \in 1..MaxPlans : run_plan(b, i)
       /\ UNCHANGED beside_driver
    \/ /\ \E b \in 1..MaxBranches : upload_files_to_object_store(b)
       /\ UNCHANGED beside_driver
    \/ /\ \E b \in 1..MaxBranches : update_catalog(b)
       /\ UNCHANGED beside_driver
    \/ collect_branches /\ UNCHANGED beside_driver
    \/ timeout /\ UNCHANGED beside_driver
    \/ compact_partition_completed /\ UNCHANGED beside_driver
    \/ job_done_sink /\ UNCHANGED beside_driver
    \/ scratchpad_clean /\ UNCHANGED beside_driver

\* The runtime keeps polling the job, and every call it awaits returns;
\* nothing makes the timeout fire.
DriverStep == DriverNext /\ ~timeout

DriverSpecInit ==
    /\ InitWith(NumPartitions)
    /\ ReplayInit /\ may_fail = FALSE
    /\ WorkerInit
    /\ FilterInit
    /\ RouterInit
    /\ \E gossip \in BOOLEAN :
         DriverInitWith(1, gossip, Workload(1, MaxBranches, {1, MaxPlans}))

DriverSpec ==
    /\ DriverSpecInit
    /\ [][DriverNext]_all_vars
    /\ WF_all_vars(DriverStep)

\* The job on rounds of one range of one branch, of up to one file more
\* than a chunk has plans, with files to upgrade and to keep among them,
\* while another writer may change the partition's files in the catalog.
BranchSpecInit ==
    /\ InitWith(NumPartitions)
    /\ ReplayInit /\ may_fail = FALSE
    /\ WorkerInit
    /\ FilterInit
    /\ RouterInit
    /\ DriverInitWith(1, FALSE,
                      [ranges |-> 1, branches |-> 1,
                       sizes |-> {1, 3, MaxPlans + 1},
                       classes |-> {CompactAll, KeepAll, UpgradeOne,
                                    UpgradeAll, UpgradeAndKeep},
                       later |-> {0}, concurrent |-> TRUE])

BranchSpec ==
    /\ BranchSpecInit
    /\ [][DriverNext]_all_vars
    /\ WF_all_vars(DriverStep)

\* The job on rounds of ranges that each hold a file for later and no
\* branches or up to MaxBranches branches of one file to compact: up to
\* MaxRanges ranges under a semaphore of one permit, where the branches
\* run one at a time, or one range under a semaphore of two permits,
\* where two run side by side.
RangeSpecInit ==
    /\ InitWith(NumPartitions)
    /\ ReplayInit /\ may_fail = FALSE
    /\ WorkerInit
    /\ FilterInit
    /\ RouterInit
    /\ \E total \in 1..2 :
         DriverInitWith(total, FALSE,
                        [ranges |-> IF total = 1 THEN MaxRanges ELSE 1,
                         branches |-> MaxBranches,
                         sizes |-> {1}, classes |-> {CompactAll},
                         later |-> {1}, concurrent |-> FALSE])

RangeSpec ==
    /\ RangeSpecInit
    /\ [][DriverNext]_all_vars
    /\ WF_all_vars(DriverStep)

\* The same job with a larger semaphore and a lighter partition: ranges
\* of one branch and branches of one or two plans, so that plans run side
\* by side and an attempt can be repeated with more permits.
PermitSpecInit ==
    /\ InitWith(NumPartitions)
    /\ ReplayInit /\ may_fail = FALSE
    /\ WorkerInit
    /\ FilterInit
    /\ RouterInit
    /\ \E total \in 2..MaxPermits : \E gossip \in BOOLEAN :
         DriverInitWith(total, gossip, Workload(1, 1, {1, 2}))

PermitSpec ==
    /\ PermitSpecInit
    /\ [][DriverNext]_all_vars
    /\ WF_all_vars(DriverStep)

\* One call of validate_service_limits, for every cached schema and every
\* write of the bounded sets.
RouterNext == validate_service_limits /\ UNCHANGED beside_router

RouterSpecInit ==
    /\ InitWith(NumPartitions)
    /\ ReplayInit /\ may_fail = FALSE
    /\ DriverInit
    /\ WorkerInit
    /\ FilterInit
    /\ \E schema \in NamespaceSchemas : \E write \in ColumnNamesByTable :
         RouterInitWith(schema, write)

RouterSpec == RouterSpecInit /\ [][RouterNext]_all_vars

\* ------------------------------------------------------------ properties
StructurallyEmpty(p) ==
    Len(persisting[p]) = 0 /\ Len(buffer[p].rows) = 0

Max(S) == CHOOSE x \in S : \A y \in S : y <= x

\* The batches history l promises a reader: one per persist event, holding
\* the rows written since the previous one, then one of the rows written
\* since the last persist event, if any.
RECURSIVE HistoryBatchesFrom(_, _, _)
HistoryBatchesFrom(l, i, acc) ==
    IF i > Len(l) THEN (IF acc = <<>> THEN <<>> ELSE <<acc>>)
    ELSE IF l[i].kind = "write"
         THEN HistoryBatchesFrom(l, i + 1, acc \o l[i].mb)
         ELSE <<acc>> \o HistoryBatchesFrom(l, i + 1, <<>>)

HistoryBatches(l) == HistoryBatchesFrom(l, 1, <<>>)

\* What deduplication keeps of a list of rows: per time value, the field of
\* the last row carrying it.
Dedup(rs) ==
    [k \in {rs[i].time : i \in DOMAIN rs} |->
        rs[Max({i \in DOMAIN rs : rs[i].time = k})].x]

\* Per time value written in history l, the field of the last write to it.
WritesTo(l, k) ==
    {i \in DOMAIN l : \E n \in DOMAIN l[i].mb : l[i].mb[n].time = k}

LastWritten(l) ==
    [k \in {t \in TimeValues : WritesTo(l, t) # {}} |->
        l[Max(WritesTo(l, k))].mb[1].x]

\* C1: after any sequence of buffer_write, mark_persisting and
\* mark_persisted calls, the cached is_empty flag of a partition equals
\* (its persisting list is empty and its live buffer holds 0 rows).
C1_IsEmptyInSync ==
    \A p \in Partitions : is_empty[p] = StructurallyEmpty(p)

\* A partition that was drained by mark_persisted and reports empty again.
C1_Witness ==
    /\ ret.op = "mark_persisted"
    /\ is_empty[ret.p]
    /\ started_persistence_count[ret.p] >= 2

\* C2: get_query_data returns the persisting snapshots oldest first, then
\* the live buffer: its batches are those of the call history, so the rows
\* are in buffer_write call order and deduplication keeps the last write
\* to each row.
C2_QueryInWriteOrder ==
    (ret.op = "get_query_data" /\ ret.projection = Columns) =>
        /\ ret.batches = HistoryBatches(log[ret.p])
        /\ Concat(ret.batches) = HistoryRows(log[ret.p])
        /\ Dedup(Concat(ret.batches)) = LastWritten(log[ret.p])

\* A query answered from two persisting snapshots and the live buffer.
C2_Witness ==
    /\ ret.op = "get_query_data"
    /\ ret.projection = Columns
    /\ Len(persisting[ret.p]) = 2
    /\ Len(buffer[ret.p].rows) > 0
    /\ Len(ret.batches) = 3

RemoveAt(s, i) == SubSeq(s, 1, i - 1) \o SubSeq(s, i + 1, Len(s))

IdentPositions(list, ident) == {i \in DOMAIN list : list[i].ident = ident}

\* C3: mark_persisted may be given the outstanding handles in any order:
\* the call does not fail, removes exactly the snapshot its handle
\* identifies, and what a query returns afterwards is what it returned
\* before less that snapshot: the remaining snapshots in their creation
\* order, ahead of the live buffer.
C3_OutOfOrderPersist ==
    [][/\ ~panicked'
       /\ \A p \in Partitions :
            (ret'.op = "mark_persisted" /\ ret'.p = p /\ handles'[p] # handles[p]) =>
                LET at == IdentPositions(persisting[p], ret'.ident)
                    i == CHOOSE i \in at : TRUE
                    before == get_query_data_of(persisting[p], buffer[p], Columns)
                    after == get_query_data_of(persisting'[p], buffer'[p], Columns)
                IN /\ Cardinality(at) = 1
                   /\ persisting'[p] = RemoveAt(persisting[p], i)
                   /\ buffer'[p] = buffer[p]
                   /\ after.data = RemoveAt(before.data, i)
                   /\ handles'[p] =
                        {h \in handles[p] : h.batch_ident # ret'.ident}]_vars

\* The middle one of three snapshots was retired first.
C3_Witness ==
    /\ ret.op = "mark_persisted"
    /\ \E i, j \in DOMAIN persisting[ret.p] :
         /\ i < j
         /\ persisting[ret.p][i].ident < ret.ident
         /\ ret.ident < persisting[ret.p][j].ident

NonEmptyPartitions == {p \in Partitions : ~StructurallyEmpty(p)}

\* C4: the namespace counter goes up by one on the buffer_write that makes
\* an empty partition non-empty, down by one on the mark_persisted that
\* removes a partition's last data, and is left alone by every other call;
\* so it always equals the number of non-empty partitions.
C4_CounterCountsNonEmpty ==
    [][LET write == ret'.op = "buffer_write" /\ ret'.ok /\ nwrites' # nwrites
           done == ret'.op = "mark_persisted"
                   /\ handles'[ret'.p] # handles[ret'.p]
           up == write /\ StructurallyEmpty(ret'.p)
           down == done /\ Len(persisting'[ret'.p]) = 0
                        /\ Len(buffer'[ret'.p].rows) = 0
       IN /\ partition_counter.current = Cardinality(NonEmptyPartitions)
          /\ partition_counter'.current =
                partition_counter.current
                    + (IF up THEN 1 ELSE 0) - (IF down THEN 1 ELSE 0)
          /\ partition_counter'.max = partition_counter.max]_vars

\* A partition was drained while another partition of the namespace still
\* holds data.
C4_Witness ==
    /\ ret.op = "mark_persisted"
    /\ StructurallyEmpty(ret.p)
    /\ partition_counter.current >= 1
    /\ partition_counter.current = Cardinality(NonEmptyPartitions)

\* C5: no assertion of buffer_write, get_query_data, mark_persisting or
\* mark_persisted fails, and a partition that holds buffered rows or a
\* persisting snapshot has a namespace counter greater than 0.
C5_NonEmptyHasPermit ==
    /\ ~panicked
    /\ \A p \in Partitions :
         (Len(buffer[p].rows) > 0 \/ Len(persisting[p]) > 0) =>
             PartitionCounter_read(partition_counter) > 0

\* A mark_persisted that left rows behind in the live buffer only.
C5_Witness ==
    /\ ret.op = "mark_persisted"
    /\ Len(persisting[ret.p]) = 0
    /\ Len(buffer[ret.p].rows) > 0
    /\ PartitionCounter_read(partition_counter) > 0
    /\ ~panicked

\* C6: mark_persisted(h) returns exactly the sequence numbers of the writes
\* accepted between the previous successful mark_persisting (or creation)
\* and the mark_persisting that produced h; a write is accepted whatever
\* its sequence number.
C6_PersistedSequenceNumbers ==
    /\ ret.op = "mark_persisted" =>
          /\ struck # <<>>
          /\ ret.seqs = {struck[i].seq : i \in DOMAIN struck}
    /\ ret.op = "buffer_write" => ret.ok

\* The retired snapshot held writes whose sequence numbers went down.
C6_Witness ==
    /\ ret.op = "mark_persisted"
    /\ \E i, j \in DOMAIN struck : i < j /\ struck[i].seq > struck[j].seq
    /\ Cardinality(ret.seqs) = 2

\* C7: get_query_data returns None exactly when the partition holds no
\* persisting snapshot and no buffered row; the snapshot it returns
\* otherwise has rows() rows (the persisting rows plus the buffered rows),
\* each with the projected columns, whatever the projection.
C7_QueryRowCount ==
    ret.op = "get_query_data" =>
        /\ ret.ok = ~StructurallyEmpty(ret.p)
        /\ ~ret.ok => ret.batches = <<>>
        /\ ret.ok =>
             /\ num_rows(ret.batches) = rows(ret.p)
             /\ num_rows(ret.batches) = Len(HistoryRows(log[ret.p]))
             /\ \A b \in DOMAIN ret.batches :
                  /\ ret.batches[b] # <<>>
                  /\ \A n \in DOMAIN ret.batches[b] :
                       DOMAIN ret.batches[b][n] = ret.projection

\* A projected query over a persisting snapshot and a live buffer.
C7_Witness ==
    /\ ret.op = "get_query_data"
    /\ ret.ok
    /\ ret.projection # Columns
    /\ Len(persisting[ret.p]) > 0
    /\ Len(buffer[ret.p].rows) > 0
    /\ num_rows(ret.batches) > Len(ret.batches)

\* C8: mark_persisting returns None exactly when the live buffer holds no
\* rows, and then changes nothing: started_persistence_count, the
\* persisting list, is_empty, the namespace counter and the (empty) buffer
\* keep their values, and no handle is issued.
C8_MarkPersistingNoData ==
    [][\A p \in Partitions :
        (ret'.op = "mark_persisting" /\ ret'.p = p) =>
            /\ ret'.ok = (Len(buffer[p].rows) # 0)
            /\ ~ret'.ok =>
                 /\ started_persistence_count' = started_persistence_count
                 /\ completed_persistence_count' = completed_persistence_count
                 /\ persisting' = persisting
                 /\ is_empty' = is_empty
                 /\ partition_counter' = partition_counter
                 /\ buffer' = buffer
                 /\ handles' = handles]_vars

\* A second mark_persisting with no write since the first.
C8_Witness ==
    /\ ret.op = "mark_persisting"
    /\ ~ret.ok
    /\ Len(persisting[ret.p]) > 0
    /\ started_persistence_count[ret.p] = Len(persisting[ret.p])
    /\ ~is_empty[ret.p]

\* C9: a mark_persisting that returns a handle adds one to
\* started_persistence_count and tags the new snapshot, pushed last, with
\* the new value; a mark_persisted adds one to completed_persistence_count
\* and leaves started_persistence_count alone.  So no counter decreases,
\* the batch idents of the persisting list are distinct and increase in
\* creation order, and started - completed is the length of the list.
C9_PersistenceCounters ==
    [][\A p \in Partitions :
        LET list == persisting'[p]
            started == started_persistence_count'[p]
            completed == completed_persistence_count'[p]
        IN /\ started >= started_persistence_count[p]
           /\ completed >= completed_persistence_count[p]
           /\ (ret'.op = "mark_persisting" /\ ret'.p = p /\ ret'.ok) =>
                /\ started = started_persistence_count[p] + 1
                /\ completed = completed_persistence_count[p]
                /\ ret'.ident = started
                /\ Len(list) = Len(persisting[p]) + 1
                /\ list[Len(list)].ident = started
                /\ SubSeq(list, 1, Len(list) - 1) = persisting[p]
           /\ (ret'.op = "mark_persisted" /\ ret'.p = p
                   /\ handles'[p] # handles[p]) =>
                /\ completed = completed_persistence_count[p] + 1
                /\ started = started_persistence_count[p]
           /\ \A i, j \in DOMAIN list : i < j => list[i].ident < list[j].ident
           /\ \A i \in DOMAIN list : list[i].ident \in 1..started
           /\ started - completed = Len(list)]_vars

\* A later snapshot was started after an earlier one had completed.
C9_Witness ==
    /\ ret.op = "mark_persisting"
    /\ ret.ok
    /\ ret.ident >= 2
    /\ ret.ident = started_persistence_count[ret.p]
    /\ completed_persistence_count[ret.p] >= 1
    /\ Len(persisting[ret.p]) >= 1

\* C10: a buffer_write on an empty partition fails with the limit error
\* exactly when one more non-empty partition would exceed the namespace
\* cap, and then buffers nothing; a buffer_write on a non-empty partition
\* succeeds and leaves the counter alone.
C10_LimitOnFirstWrite ==
    [][\A p \in Partitions :
        (ret'.op = "buffer_write" /\ ret'.p = p) =>
            IF is_empty[p]
            THEN /\ ret'.ok = (partition_counter.current + 1 <= partition_counter.max)
                 /\ ~ret'.ok =>
                      /\ ret'.err = "Limit"
                      /\ buffer' = buffer
                      /\ is_empty' = is_empty
                      /\ persisting' = persisting
                      /\ partition_counter' = partition_counter
                 /\ ret'.ok =>
                      /\ partition_counter'.current = partition_counter.current + 1
                      /\ Len(buffer'[p].rows) > Len(buffer[p].rows)
            ELSE /\ ret'.ok
                 /\ partition_counter' = partition_counter
                 /\ Len(buffer'[p].rows) > Len(buffer[p].rows)]_vars

\* A first write turned away at the cap, a write behind.
C10_Witness ==
    /\ ret.op = "buffer_write"
    /\ ~ret.ok
    /\ ret.err = "Limit"
    /\ is_empty[ret.p]
    /\ Len(buffer[ret.p].rows) = 0
    /\ partition_counter.current = partition_counter.max

\* ------------------------------------------------ properties: WAL replay
\* The calls of the replay under way (or of the last one): those after the
\* trace's last "replay" mark.
Marks(t) == {i \in DOMAIN t : t[i].kind = "replay"}

ThisRun(t) ==
    IF Marks(t) = {} THEN <<>> ELSE SubSeq(t, Max(Marks(t)) + 1, Len(t))

\* The calls that dispose of an op: the sink is called, or the op skipped.
OpCalls(t) == SelectSeq(t, LAMBDA c : c.kind \in {"apply", "skip"})

Applied(t) == SelectSeq(t, LAMBDA c : c.kind = "apply" /\ c.ok)

OpKey(seg, b, o, seqs) ==
    [seg |-> seg, batch |-> b, op |-> o, seqs |-> seqs]

\* The ops of segment file s, in file order.
SegmentOps(s) ==
    Concat([b \in DOMAIN s.batches |->
              [o \in DOMAIN s.batches[b] |->
                 OpKey(s.id, b, o, s.batches[b][o])]])

\* The ops of the segment files w, oldest file first.
AllOps(w) == Concat([i \in DOMAIN w |-> SegmentOps(w[i])])

IsPrefix(a, b) == Len(a) <= Len(b) /\ SubSeq(b, 1, Len(a)) = a

\* C11: replay disposes of the ops in one total order, segments oldest
\* first, batches and ops in file order: at every moment the ops applied
\* to the sink or skipped so far are a prefix of the ops of the listed
\* segments laid end to end, so no op of a later segment is applied
\* before every op of every earlier segment was applied or skipped; the
\* ops that hold table data are the ones applied, the others skipped.
C11_ReplayOrder ==
    LET calls == OpCalls(ThisRun(trace))
    IN  /\ IsPrefix([i \in DOMAIN calls |->
                       OpKey(calls[i].seg, calls[i].batch, calls[i].op,
                             calls[i].seqs)],
                    AllOps(listed))
        /\ \A i \in DOMAIN calls :
              calls[i].kind = (IF calls[i].seqs = {} THEN "skip" ELSE "apply")

\* Ops of two segments were applied, the later segment's op last.
C11_Witness ==
    LET calls == Applied(ThisRun(trace))
    IN  /\ Len(calls) >= 2
        /\ calls[1].seg # calls[Len(calls)].seg

\* The sequence numbers of the ops the replay under way applied.
AppliedSeqs == UNION {c.seqs : c \in {Applied(ThisRun(trace))[i] :
                                        i \in DOMAIN Applied(ThisRun(trace))}}

\* C12: when replay returns Ok(m), m is the maximum per-table sequence
\* number over all ops applied during the replay, across all segments and
\* including the ops read from a truncated last segment before the
\* end-of-file error; m is None iff no sequenced op was applied.
C12_MaxSequence ==
    (replay_pc = "done" /\ result.kind = "Ok") =>
        result.seq = (IF AppliedSeqs = {} THEN None
                      ELSE Some(Max(AppliedSeqs)))

\* Ok after a truncated last segment, the maximum coming from an earlier
\* op than the last one applied.
C12_Witness ==
    LET calls == Applied(ThisRun(trace))
    IN  /\ replay_pc = "done" /\ result.kind = "Ok"
        /\ metrics.files_truncated = 1
        /\ Len(calls) >= 2
        /\ calls[1].seg # calls[Len(calls)].seg
        /\ \A s \in calls[Len(calls)].seqs : s < Max(AppliedSeqs)

\* The ids of the segment files w holds.
Ids(w) == {w[i].id : i \in DOMAIN w}

\* The replay under way took a read error for a truncated write.
Truncated == metrics.files_truncated >= 1

\* An end-of-file read error in a file that is not the last.
EofBeforeLast ==
    /\ replay_result.kind = "ReadEntry"
    /\ replay_result.io = "UnexpectedEof"
    /\ file_number < n_files

\* What the claim says of a truncated write but for the end of the replay:
\* only the last file's end-of-file error is tolerated and counted, once;
\* an end-of-file error elsewhere fails the replay; reading the file
\* stopped at the batch the error came for; max_sequence is still the
\* maximum over the ops applied.
TruncatedTail ==
    /\ metrics.files_truncated <= 1
    /\ Truncated =>
         /\ replay_result = ReadEntry("UnexpectedEof", file_max_sequence)
         /\ file_number = n_files
         /\ replay_pc \in {"persist", "delete", "done"}
         /\ Len(SelectSeq(OpCalls(ThisRun(trace)),
                          LAMBDA c : c.seg = file_id))
              = SumLen(SubSeq(Wal_segment(listed, file_id).batches,
                              1, replay_batch - 1))
         /\ max_sequence = (IF AppliedSeqs = {} THEN None
                            ELSE Some(Max(AppliedSeqs)))
    /\ (EofBeforeLast /\ replay_pc # "result") =>
         /\ replay_pc = "done"
         /\ result = replay_result
         /\ ~Truncated

\* The last two calls of the trace: the flush, then the delete of file id.
EndsWithFlushAndDelete(t, id) ==
    /\ Len(t) >= 2
    /\ t[Len(t) - 1].kind = "persist" /\ t[Len(t) - 1].seg = id
    /\ t[Len(t)].kind = "delete" /\ t[Len(t)].seg = id

\* The listed segments whose delete failed in the replay under way.
FailedDeletes ==
    {ThisRun(trace)[i].seg : i \in {j \in DOMAIN ThisRun(trace) :
        ThisRun(trace)[j].kind = "delete" /\ ~ThisRun(trace)[j].ok}}

\* C13 as stated: an unexpected end-of-file is tolerated only in the last
\* segment; replay then stops reading the segment, counts it once as
\* truncated, keeps the maximum sequence number, still flushes the
\* partitions and deletes the segment, and returns Ok with every segment
\* deleted.
C13_Original ==
    /\ TruncatedTail
    /\ (Truncated /\ replay_pc = "done") =>
         /\ EndsWithFlushAndDelete(trace, file_id)
         /\ result.kind = "Ok"
         /\ Ids(wal) \cap Ids(listed) = {}

\* C13, amended: as stated up to the flush; replay then calls delete for
\* the segment and returns Ok if that delete succeeds (it panics if the
\* delete fails); at the end every listed segment is deleted but the
\* empty ones whose delete failed.
C13_TruncatedTail ==
    /\ TruncatedTail
    /\ (Truncated /\ replay_pc = "done") =>
         /\ EndsWithFlushAndDelete(trace, file_id)
         /\ result.kind = (IF trace[Len(trace)].ok THEN "Ok" ELSE "panic")
         /\ result.kind = "Ok" => Ids(wal) \cap Ids(listed) = FailedDeletes

\* Ok after the last of several segments was cut short behind an applied
\* op.
C13_Witness ==
    /\ Truncated /\ replay_pc = "done" /\ result.kind = "Ok"
    /\ n_files >= 2
    /\ \E i \in DOMAIN Applied(ThisRun(trace)) :
         Applied(ThisRun(trace))[i].seg = file_id

\* replay returned one of the errors of WalReplayError.
Failed ==
    /\ replay_pc = "done"
    /\ result.kind \in {"OpenSegment", "ReadEntry", "MapToDml", "Apply"}

\* C14: any error other than the tolerated truncated tail of the last
\* segment makes replay fail, and the returned error carries the highest
\* sequence number of the entries successfully replayed before the
\* failure; the segments before the failing one have been deleted (here:
\* all but those whose delete failed), the failing segment and all later
\* ones are not deleted, and no op of a later segment is applied.
C14_ErrorCarriesMaxSequence ==
    /\ (/\ replay_result.kind \notin {"none", "Ok"}
        /\ ~tolerated(replay_result, file_number, n_files)
        /\ replay_pc # "result") =>
          (replay_pc = "done" /\ result = replay_result)
    /\ Failed =>
         /\ result.seq = (IF AppliedSeqs = {} THEN None
                          ELSE Some(Max(AppliedSeqs)))
         /\ \A j \in DOMAIN files :
              IF j < file_number
              THEN files[j] \in Ids(wal) => files[j] \in FailedDeletes
              ELSE files[j] \in Ids(wal)
         /\ \A i \in DOMAIN OpCalls(ThisRun(trace)) :
              \E j \in 1..file_number :
                 OpCalls(ThisRun(trace))[i].seg = files[j]

\* Call i of run t is a delete that the flush for the same file precedes.
FlushedBefore(t, i) ==
    i > 1 /\ t[i - 1].kind = "persist" /\ t[i - 1].seg = t[i].seg

\* No flush for the file of call i precedes call i of run t.
NoFlushBefore(t, i) ==
    \A j \in 1..(i - 1) : ~(t[j].kind = "persist" /\ t[j].seg = t[i].seg)

\* A sequenced op of the file of call i was applied before call i of run t.
OpsBefore(t, i) ==
    \E j \in 1..(i - 1) : t[j].kind = "apply" /\ t[j].ok /\ t[j].seg = t[i].seg

\* The position of segment id in the listing.
FileNumberOf(id) == CHOOSE j \in DOMAIN files : files[j] = id

\* Before an op of a file is applied or skipped, the delete of every file
\* listed before it was called.
DeleteBeforeNextFile(t) ==
    \A i \in DOMAIN t :
       t[i].kind \in {"apply", "skip"} =>
          \A k \in 1..(FileNumberOf(t[i].seg) - 1) :
             \E j \in 1..(i - 1) : t[j].kind = "delete" /\ t[j].seg = files[k]

\* C15 as stated: a segment in which a sequenced op was observed is
\* deleted only after the partitions were flushed; a segment that yielded
\* no op is deleted without a flush; no op of the next segment is applied
\* before the delete of the current segment was attempted.
C15_Original ==
    LET t == ThisRun(trace)
    IN  /\ \A i \in DOMAIN t :
              t[i].kind = "delete" =>
                 IF OpsBefore(t, i) THEN FlushedBefore(t, i)
                                    ELSE NoFlushBefore(t, i)
        /\ DeleteBeforeNextFile(t)

\* C15, amended: a segment in which a sequenced op was observed, and the
\* last segment when its tail was truncated (even if no op was read from
\* it), is deleted only after the partitions were flushed; a segment read
\* to its end that yielded no sequenced op is deleted without a flush; no
\* op of the next segment is applied before the delete of the current
\* segment was attempted.
C15_FlushBeforeDelete ==
    LET t == ThisRun(trace)
    IN  /\ \A i \in DOMAIN t :
              t[i].kind = "delete" =>
                 IF \/ OpsBefore(t, i)
                    \/ Truncated /\ t[i].seg = files[n_files]
                 THEN FlushedBefore(t, i)
                 ELSE NoFlushBefore(t, i)
        /\ DeleteBeforeNextFile(t)

\* A segment with an applied op was flushed and deleted, then an op of a
\* later segment applied.
C15_Witness ==
    LET t == ThisRun(trace)
    IN  \E i, j \in DOMAIN t :
           /\ i < j
           /\ t[i].kind = "delete" /\ OpsBefore(t, i) /\ FlushedBefore(t, i)
           /\ t[j].kind = "apply" /\ t[j].seg # t[i].seg

\* This step is a call of delete that failed.
DeleteFailed ==
    /\ Len(trace') = Len(trace) + 1
    /\ trace'[Len(trace')].kind = "delete"
    /\ ~trace'[Len(trace')].ok

\* After this step replay goes on as after a delete that succeeded: to
\* the next segment, or to its normal return after the last.
GoesOn ==
    IF file_number < n_files
    THEN replay_pc' = "open" /\ file_number' = file_number + 1
    ELSE replay_pc' = "done" /\ result' = ROk(max_sequence)

\* C16 as stated: a failure to delete a WAL segment, empty or not, is only
\* logged; replay goes on to the next segment and returns its normal
\* result.
C16_Original == [][DeleteFailed => GoesOn]_all_vars

\* C16, amended: a failure to delete an empty WAL segment is only logged
\* and replay goes on to the next segment and returns its normal result;
\* a failure to delete a segment after its flush (one that held replayed
\* ops, or the truncated last one) panics, which ends the replay without
\* a result.
C16_DeleteFailure ==
    [][DeleteFailed =>
         IF replay_pc = "delete_empty"
         THEN GoesOn
         ELSE replay_pc' = "done" /\ result' = Returned("panic", "", None)]_all_vars

\* replay returned Ok although the delete of an empty segment failed, and
\* went on to an op of a later segment in between.
C16_Witness ==
    /\ replay_pc = "done" /\ result.kind = "Ok"
    /\ \E id \in FailedDeletes :
          \E i \in DOMAIN Applied(ThisRun(trace)) :
             FileNumberOf(Applied(ThisRun(trace))[i].seg) > FileNumberOf(id)

\* The ingest state holds an error other than DiskFull.
Blocked(state) == state \ {"DiskFull"} # {}

\* The calls that disposed of the ops of the file replay_file is at.
FileCalls ==
    SelectSeq(OpCalls(ThisRun(trace)), LAMBDA c : c.seg = file_id)

\* replay_file returned Ok: every op of the file was applied or skipped,
\* in file order, and the maximum sequence number of the file is returned.
FileReplayed ==
    (replay_pc = "result" /\ replay_result.kind = "Ok") =>
       /\ [i \in DOMAIN FileCalls |->
             OpKey(FileCalls[i].seg, FileCalls[i].batch, FileCalls[i].op,
                   FileCalls[i].seqs)]
            = SegmentOps(Wal_segment(wal, file_id))
       /\ replay_result.seq =
            option_max(None, UNION {FileCalls[i].seqs : i \in DOMAIN FileCalls})

\* C17: replay applies an op only after a poll that read no ingest state
\* error other than DiskFull; while such an error is set, the op is not
\* applied and replay_file does not return; with only DiskFull set the
\* poll lets the op through at once; and once the blocking errors are
\* cleared for good, replay_file applies every remaining op in order and
\* returns the maximum sequence number of the file.
C17_IngestStateGate ==
    /\ [](replay_pc = "apply" => ~Blocked(polled))
    /\ []((replay_pc = "gate" /\ ~Blocked(ingest_state)) =>
            ENABLED (poll_ingest_state /\ UNCHANGED vars
                     /\ replay_pc' = "apply"))
    /\ [][(replay_pc = "gate" /\ Blocked(ingest_state)) =>
            (replay_pc' = "gate" /\ trace' = trace
             /\ replay_result' = replay_result)]_all_vars
    /\ [][Len(trace') > Len(trace) /\ trace'[Len(trace')].kind = "apply" =>
            (replay_pc = "apply" /\ ~Blocked(polled))]_all_vars
    /\ []FileReplayed
    /\ (<>[]~Blocked(ingest_state)) =>
          ((replay_pc = "gate") ~> (replay_pc = "result"))

\* replay_file stands blocked before an op, having applied an earlier op
\* after a poll that read only DiskFull.
C17_Witness ==
    /\ replay_pc = "gate"
    /\ Blocked(ingest_state)
    /\ polled = {"DiskFull"}
    /\ \E i \in DOMAIN Applied(ThisRun(trace)) :
          Applied(ThisRun(trace))[i].seg = file_id

\* The calls of the replay before the one under way.
RunBefore(t) ==
    LET last == Max(Marks(t))
        earlier == {i \in Marks(t) : i < last}
    IN  IF earlier = {} THEN <<>>
        ELSE SubSeq(t, Max(earlier) + 1, last - 1)

NoFailedDelete(t) == \A i \in DOMAIN t : t[i].kind = "delete" => t[i].ok

\* The replay under way applied no op and flushed nothing.
NoWork(t) == \A i \in DOMAIN t : t[i].kind \notin {"apply", "persist"}

JobUploads(request) == {u \in uploads : u.request = request}

\* The catalog rows of one job.
JobRows(request) == {f \in parquet_files : f.request = request}

IsLastUpload(u) == \A v \in JobUploads(u.request) : v.attempt <= u.attempt

\* The steps a job may take from one stage to the next.
StageOrder(w) ==
    {<<"recv", "compact">>, <<"compact", "upload">>,
     <<"upload", IF ctx[w].sort_key_update /= None
                 THEN "cas" ELSE "register">>,
     <<"cas", "register">>, <<"cas", "compact">>,
     <<"register", "notify">>, <<"notify", "recv">>}

\* The stage's effect happens in the stage, and nowhere else.
StageEffects(w) ==
    /\ (\E u \in uploads' \ uploads : u.worker = w) =>
           worker_pc[w] = "upload"
    /\ catalog_sort_key' /= catalog_sort_key =>
           \E v \in Workers : worker_pc[v] = "cas"
    /\ (\E f \in parquet_files' \ parquet_files : f.worker = w) =>
           worker_pc[w] = "register"
    /\ (\E n \in notified' \ notified : n.worker = w) =>
           worker_pc[w] = "notify"

\* The sort key update of the job at w is in the catalog, or was: the
\* compare-and-swap installed it, or found it installed.
SortKeyCommitted(w) ==
    /\ ctx[w].update_result = "Ok"
    /\ \E i \in installs : Some(i.new) = ctx[w].sort_key_update

\* A row is created for a file that was uploaded, once the sort key update
\* the job needs (if any) is committed.
RowAfterUploadAndCas ==
    \A f \in parquet_files' \ parquet_files :
        /\ \E u \in uploads :
              /\ u.object_store_id = f.object_store_id
              /\ u.request = f.request
              /\ u.worker = f.worker
        /\ ctx[f.worker].sort_key_update /= None =>
              SortKeyCommitted(f.worker)

NotifyAfterRow ==
    \A n \in notified' \ notified :
        \E f \in parquet_files :
            /\ f.object_store_id = n.object_store_id
            /\ f.request = n.request

\* C19: a job goes through compact, upload, sort key compare-and-swap
\* (only when the compaction asks for a sort key update), register and
\* notify in this order; a job gets at most one catalog row and a notified
\* job exactly one; the row is the file of the job's last upload; it is
\* created only after that upload and after the sort key update, if one is
\* needed, is committed; the observer is notified only after the row
\* exists.
C19_JobOrder ==
    /\ [][\A w \in Workers :
             /\ worker_pc'[w] /= worker_pc[w] =>
                    <<worker_pc[w], worker_pc'[w]>> \in StageOrder(w)
             /\ StageEffects(w)]_all_vars
    /\ [](\A u \in uploads : Cardinality(JobRows(u.request)) <= 1)
    /\ [](\A n \in notified : Cardinality(JobRows(n.request)) = 1)
    /\ [](\A f \in parquet_files :
             \E u \in uploads :
                 /\ u.object_store_id = f.object_store_id
                 /\ u.request = f.request
                 /\ IsLastUpload(u))
    /\ [][RowAfterUploadAndCas]_all_vars
    /\ [][NotifyAfterRow]_all_vars

\* A job that installed a sort key and a job that restarted because of it
\* are both registered and notified.
C19_Witness ==
    /\ \E n \in notified : n.restarts >= 1
    /\ \E n \in notified :
           /\ n.restarts = 0
           /\ \E i \in installs : i.request = n.request

\* The compare-and-swap of the job at w would report a sort key that is
\* neither the one the job read nor the one it proposes.
WouldMismatch(w) ==
    /\ worker_pc[w] = "cas"
    /\ catalog_sort_key /= ctx[w].old_sort_key
    /\ catalog_sort_key /= ctx[w].sort_key_update

\* The call of update_catalog_sort_key at w returned.
CasReturned(w) == worker_pc[w] = "cas" /\ worker_pc'[w] /= "cas"

\* The job at w is between an upload and the next stage that may restart
\* it or end it.
Uploaded(w) == worker_pc[w] \in {"cas", "register", "notify"}

\* Worker B won the compare-and-swap with [a, b, time] at its first
\* attempt, against the sort key with which worker A proposed [a, time].
BWinsAgainstA(i, u) ==
    /\ i \in installs /\ u \in uploads
    /\ i.worker = "B" /\ i.attempt = 1
    /\ i.new = <<"a", "b", "time">>
    /\ u.worker = "A" /\ u.attempt = 1
    /\ u.sort_key = i.old
    /\ u.sort_key_update = Some(<<"a", "time">>)

\* C20: a compare-and-swap that reports a sort key other than the one the
\* worker proposed makes the worker cache the reported key and restart the
\* job at compact; a job that restarted k times has uploaded k + 1 times,
\* every upload under an object store id of its own; when B wins with
\* [a, b, time] against A's [a, time], A's job uploads exactly twice, the
\* second time with [a, b, time], and B's job uploads once.
C20_RestartOnMismatch ==
    /\ [][\A w \in Workers :
             (WouldMismatch(w) /\ CasReturned(w)) =>
                 /\ sort_key'[w] = Provided(catalog_sort_key)
                 /\ worker_pc'[w] = "compact"
                 /\ ctx'[w].restarts = ctx[w].restarts + 1]_all_vars
    /\ [](\A w \in Workers :
             Uploaded(w) =>
                 Cardinality(JobUploads(ctx[w].req.id)) =
                     ctx[w].restarts + 1)
    /\ [](\A n \in notified :
             Cardinality(JobUploads(n.request)) = n.restarts + 1)
    /\ [](\A u \in uploads : \A v \in uploads :
             u.object_store_id = v.object_store_id => u = v)
    /\ [](\A i \in installs : \A u \in uploads :
             BWinsAgainstA(i, u) =>
                 /\ Cardinality(JobUploads(i.request)) = 1
                 /\ \A n \in notified :
                        n.request = u.request =>
                            /\ Cardinality(JobUploads(u.request)) = 2
                            /\ \E v \in JobUploads(u.request) :
                                   /\ v.attempt = 2
                                   /\ v.sort_key =
                                          Some(<<"a", "b", "time">>))

\* B won with [a, b, time] against A's [a, time], and both jobs are over.
C20_Witness ==
    \E i \in installs : \E u \in uploads :
        /\ BWinsAgainstA(i, u)
        /\ \E n \in notified : n.request = u.request /\ n.restarts = 1
        /\ \E n \in notified : n.request = i.request /\ n.restarts = 0

\* The sort key the file of a catalog row was written with.
FileSortKey(f) ==
    LET u == CHOOSE u \in uploads : u.object_store_id = f.object_store_id
    IN  u.data_sort_key

\* The tag columns of sort key a are the leading tag columns of b.
ExtendedBy(a, b) ==
    /\ Len(a) <= Len(b)
    /\ SubSeq(KeyTags(b), 1, Len(a) - 1) = KeyTags(a)

\* C21 as stated: when a job registers its file, the sort key the file
\* was written with is the partition sort key the catalog holds.
C21_Original ==
    [][\A f \in parquet_files' \ parquet_files :
           catalog_sort_key = Some(FileSortKey(f))]_all_vars

\* C21, amended: when a job registers its file, the sort key the file was
\* written with is the sort key the worker caches, and the catalog's sort
\* key is that key or an extension of it that another worker installed.
C21_FileSortKey ==
    [][\A f \in parquet_files' \ parquet_files :
           /\ sort_key[f.worker] = Provided(Some(FileSortKey(f)))
           /\ \E k \in catalog_sort_key : ExtendedBy(FileSortKey(f), k)
           /\ catalog_sort_key /= Some(FileSortKey(f)) =>
                  \E i \in installs :
                      /\ i.worker /= f.worker
                      /\ Some(i.new) = catalog_sort_key]_all_vars

\* A file was registered while the catalog held a longer sort key than the
\* one the file was written with, and another file while it held the same.
C21_Witness ==
    /\ \E f \in parquet_files :
           /\ worker_pc[f.worker] = "notify"
           /\ ctx[f.worker].object_store_id = f.object_store_id
           /\ catalog_sort_key /= Some(FileSortKey(f))
    /\ \E f \in parquet_files : catalog_sort_key = Some(FileSortKey(f))

\* The compare-and-swap of the job at w would report a sort key other than
\* the one the job read, and it is the one the job proposes.
WouldMatchProposed(w) ==
    /\ worker_pc[w] = "cas"
    /\ catalog_sort_key /= ctx[w].old_sort_key
    /\ catalog_sort_key = ctx[w].sort_key_update

\* C22: a compare-and-swap that reports a mismatch with the very key the
\* worker proposed counts as a success: the job does not restart, the
\* worker caches the proposed key and goes on to register the file, and
\* the job uploads nothing more.
C22_MatchingConcurrentUpdate ==
    /\ [][\A w \in Workers :
             (WouldMatchProposed(w) /\ CasReturned(w)) =>
                 /\ worker_pc'[w] = "register"
                 /\ sort_key'[w] = [state |-> "provided",
                                    key |-> ctx[w].sort_key_update]
                 /\ ctx'[w].restarts = ctx[w].restarts
                 /\ ctx'[w].update_result = "Ok"
                 /\ uploads' = uploads
                 /\ catalog_sort_key' = catalog_sort_key]_all_vars
    /\ [][\A w \in Workers :
             (ctx[w].update_result = "Ok" /\ ctx'[w].req = ctx[w].req) =>
                 /\ {u \in uploads' : u.request = ctx[w].req.id} =
                        JobUploads(ctx[w].req.id)
                 /\ worker_pc'[w] \in {"register", "notify"}]_all_vars

\* A job registers its file after a compare-and-swap that found the
\* proposed key installed by another job.
C22_Witness ==
    \E w \in Workers :
        /\ worker_pc[w] = "notify"
        /\ ctx[w].sort_key_update /= None
        /\ ctx[w].update_result = "Ok"
        /\ \A i \in installs : i.request /= ctx[w].req.id
        /\ \E f \in parquet_files : f.request = ctx[w].req.id

\* A call of the catalog was answered with an error.
CatalogError == catalog_faults' < catalog_faults

\* The jobs dequeued so far.
Dequeued == {ctx[w].req.id : w \in Workers} \ {0}

\* C23: an error of the catalog during the sort key compare-and-swap or
\* during the registration of the file is retried: the job stays where it
\* is, nothing is compacted or uploaded again, nothing reaches the catalog
\* or the observer; a compare-and-swap mismatch restarts the job and never
\* ends it; so every dequeued job reaches notify, the catalog answering in
\* the end and the sort key changing finitely often.
C23_RetriesAndProgress ==
    /\ [][CatalogError =>
             /\ worker_pc' = worker_pc
             /\ \A w \in Workers :
                    [ctx'[w] EXCEPT !.retried = {}] =
                        [ctx[w] EXCEPT !.retried = {}]
             /\ UNCHANGED <<sort_key, catalog_sort_key, parquet_files,
                            uploads, installs, notified, global_queue,
                            rx>>]_all_vars
    /\ [][\A w \in Workers :
             (ctx[w].req.id /= 0 /\ ctx'[w].req.id /= ctx[w].req.id) =>
                 \E n \in notified' : n.request = ctx[w].req.id]_all_vars
    /\ \A r \in 1..Cardinality(Workers) :
           (r \in Dequeued) ~> (\E n \in notified : n.request = r)

\* A job was notified after a restart and after errors of both catalog
\* calls.
C23_Witness ==
    \E w \in Workers :
        /\ worker_pc[w] = "notify"
        /\ ctx[w].restarts >= 1
        /\ ctx[w].retried = {"cas_sort_key", "create"}

\* -------------------------------------------- properties: compactor filters
\* C28: PossibleProgressFilter::apply returns Ok(true) when there are
\* files to make progress on; when there are none it fails with an
\* OutOfMemory error naming the partition, the size limit and the
\* timestamp exactly when a kept file is larger than max_parquet_bytes and
\* covers a single timestamp, and returns Ok(false) otherwise.
C28_PossibleProgress ==
    progress_call.called =>
        LET c == progress_call
            keep == c.files_to_keep
            fenced == {i \in DOMAIN keep :
                          /\ keep[i].file_size_bytes > c.max_parquet_bytes
                          /\ keep[i].min_time = keep[i].max_time}
        IN  IF ~FilesForProgress_is_empty(c.files_to_make_progress_on)
            THEN c.ret = FilterOk(TRUE)
            ELSE IF fenced /= {}
            THEN /\ c.ret.tag = "Err"
                 /\ c.ret.kind = "OutOfMemory"
                 /\ \E i \in fenced :
                        c.ret.msg = <<c.partition_id, c.max_parquet_bytes,
                                      keep[i].min_time>>
            ELSE c.ret = FilterOk(FALSE)

\* The wrapper's apply was called in this step.
WrapperCalled ==
    <<pass_counter, filter_counter, error_counter, filter_call>>' /=
        <<pass_counter, filter_counter, error_counter, filter_call>>

Inc(hit) == IF hit THEN 1 ELSE 0

\* C29: every call of MetricsPartitionFilterWrapper::apply increments
\* exactly one counter by one (pass for Ok(true), filter for Ok(false),
\* error for an error), leaves the other two alone and returns the inner
\* filter's result as it is.
C29_MetricsWrapper ==
    [][WrapperCalled =>
          LET res == filter_call'.res
          IN  /\ filter_call'.called
              /\ filter_call'.ret = res
              /\ pass_counter' =
                     pass_counter + Inc(res = FilterOk(TRUE))
              /\ filter_counter' =
                     filter_counter + Inc(res = FilterOk(FALSE))
              /\ error_counter' =
                     error_counter + Inc(res.tag = "Err")
              /\ (pass_counter' + filter_counter' + error_counter') =
                     (pass_counter + filter_counter + error_counter) + 1
      ]_all_vars

\* The wrapper has passed on every kind of result, the last an error.
C29_Witness ==
    /\ pass_counter >= 1
    /\ filter_counter >= 1
    /\ error_counter >= 1
    /\ filter_call.ret.tag = "Err"
    /\ filter_call.ret.kind = "Timeout"

\* ------------------------------------------------- properties: the driver
\* C24: compact_partition hands the sink exactly one of three results: an
\* error of kind Timeout when the timeout fired and no progress signal
\* had been sent, Ok when it fired after at least one progress signal,
\* and the result of try_compact_partition as it is when that finished
\* first; no step, the timeout included, takes a catalog commit back.
TimedOut == try_pc = "dropped"

C24_TimeoutResults ==
    /\ [](sink /= <<>> =>
            /\ Len(sink) = 1
            /\ TimedOut /\ progress_signals = 0 =>
                   /\ sink[1].tag = "Err"
                   /\ sink[1].kind = "Timeout"
                   /\ sink[1].from = "timeout"
            /\ TimedOut /\ progress_signals > 0 => sink[1] = DriverOk
            /\ ~TimedOut => try_pc = "returned" /\ sink[1] = try_res)
    /\ [][catalog_commits' >= catalog_commits]_all_vars
    /\ [][timeout => catalog_commits' = catalog_commits]_all_vars

\* A job that committed, signalled progress, timed out and was recorded
\* as Ok.
C24_Witness ==
    /\ TimedOut
    /\ catalog_commits > 0
    /\ progress_signals > 0
    /\ sink = <<DriverOk>>

\* C25: whatever the outcome of a job (success, error, timeout with or
\* without progress), the sink is called exactly once and the scratchpad
\* is cleaned after that: a job that started ends with one record in the
\* sink and one clean, and the clean never comes before the record.
C25_SinkThenClean ==
    /\ [](/\ Len(sink) <= 1
          /\ scratchpad_cleaned <= 1
          /\ scratchpad_cleaned = 1 => Len(sink) = 1
          /\ job_pc = "done" <=> scratchpad_cleaned = 1)
    /\ (job_pc = "running") ~> (Len(sink) = 1 /\ scratchpad_cleaned = 1)

\* A job that timed out without progress, was recorded as an error and
\* had its scratchpad cleaned.
C25_Witness ==
    /\ job_pc = "done"
    /\ TimedOut
    /\ progress_signals = 0
    /\ Len(sink) = 1 /\ sink[1].tag = "Err"
    /\ scratchpad_cleaned = 1

\* The plans that execute_plan is working on.
PlansInFlight ==
    {<<b, i>> \in (DOMAIN branches) \X (1..MaxPlans) :
        /\ i \in DOMAIN branches[b].plan
        /\ branches[b].plan[i].pc \in {"run", "acquire"}}

PlanAt(bi) == branches[bi[1]].plan[bi[2]]

RECURSIVE Pow2(_)
Pow2(n) == IF n = 0 THEN 1 ELSE 2 * Pow2(n - 1)

\* floor(log2(n)) for n >= 1
RECURSIVE Log2(_)
Log2(n) == IF n <= 1 THEN 0 ELSE 1 + Log2(n \div 2)

PlanFailure(res) ==
    res.tag = "Err" /\ res.from = "plan" /\ res.kind /= "OutOfMemory"

\* C27: a run of a plan that fails with another kind than OutOfMemory is
\* the plan's last: execute_plan returns that error, with it the branch
\* and try_compact_partition end without a commit for the chunk, no
\* range or round is started and nothing is committed after it, and the
\* sink gets that error as the result of the partition.
C27_PlanFailureAborts ==
    /\ [](\A bi \in PlansInFlight :
            PlanAt(bi).pc = "acquire" => ~PlanFailure(PlanAt(bi).res))
    /\ [][PlanFailure(plan_returned'.res)
          /\ plan_returned' /= plan_returned =>
              /\ \E bi \in PlansInFlight :
                   /\ PlanAt(bi).pc = "run"
                   /\ plan_returned'.res.permits =
                          PlanAt(bi).requested_permits
                   /\ plan_returned'.attempts = PlanAt(bi).attempts
              /\ try_pc' = "returned"
              /\ try_res' = plan_returned'.res
              /\ branches' = <<>>
              /\ catalog_commits' = catalog_commits]_all_vars
    /\ [][try_pc = "returned" /\ PlanFailure(try_res) =>
              /\ try_pc' = "returned"
              /\ try_res' = try_res
              /\ UNCHANGED <<round, range_no, branches, catalog_commits,
                             signals>>]_all_vars
    /\ [](try_pc = "returned" /\ PlanFailure(try_res) /\ sink /= <<>> =>
              sink = <<try_res>>)
    /\ (try_pc = "returned" /\ PlanFailure(try_res)) ~>
           (sink /= <<>> /\ job_pc = "done")

\* The first run of a plan failed with an unknown error although the
\* semaphore had permits for another run, an earlier chunk or range had
\* been committed, and the sink got the error.
C27_Witness ==
    /\ total_permits >= 2
    /\ try_res = DriverErr("Unknown", "plan", 1)
    /\ plan_returned = [res |-> try_res, attempts |-> 1]
    /\ catalog_commits >= 1
    /\ sink = <<try_res>>

\* The chunks of a branch that lie before the chunk at hand.
ChunksBefore(br) == (br.lo - 1) \div (4 * total_permits)

\* C30: a branch works on one chunk of at most 4 x total permits plans at
\* a time; the chunk is uploaded once all its plans returned, and
\* committed once after that, so that a branch has as many commits as
\* chunks behind it; a gossip broadcast and a progress signal happen only
\* in a step whose commit succeeded, and only there a branch moves to its
\* next chunk.
C30_ChunkedCommits ==
    /\ [](\A b \in DOMAIN branches :
            LET br == branches[b] IN
            br.pc \in {"load", "plans", "upload", "commit"} =>
                /\ br.hi - br.lo + 1 \in 1..(4 * total_permits)
                /\ Len(br.plan) <= 4 * total_permits
                /\ br.commits = ChunksBefore(br)
                /\ br.uploads =
                       IF br.pc = "commit" THEN br.commits + 1
                       ELSE br.commits
                /\ br.pc \in {"upload", "commit"} =>
                       /\ Len(br.plan) = br.hi - br.lo + 1
                       /\ \A i \in DOMAIN br.plan : br.plan[i] = DonePlan)
    /\ [](\A b \in DOMAIN branches :
            LET br == branches[b] IN
            br.pc = "done" /\ br.plans > 0 =>
                /\ br.hi = br.plans
                /\ br.commits = ChunksBefore(br) + 1
                /\ br.uploads = br.commits)
    /\ [][/\ catalog_commits' \in {catalog_commits, catalog_commits + 1}
          /\ catalog_commits' /= catalog_commits =>
                 \E b \in DOMAIN branches : branches[b].pc = "commit"
          /\ gossips' /= gossips =>
                 /\ gossips' = gossips + 1
                 /\ catalog_commits' = catalog_commits + 1
          /\ progress_signals' /= progress_signals =>
                 /\ progress_signals' = progress_signals + 1
                 /\ catalog_commits' = catalog_commits + 1
          /\ \A b \in (DOMAIN branches) \cap (DOMAIN branches') :
                 branches'[b].lo /= branches[b].lo =>
                     /\ branches[b].pc = "commit"
                     /\ branches'[b].lo = branches[b].hi + 1
                     /\ catalog_commits' = catalog_commits + 1
                     /\ progress_signals' = progress_signals + 1]_all_vars

\* A branch with more plans than a chunk holds is about to commit its
\* second chunk; the first was committed, broadcast and signalled.
C30_Witness ==
    /\ gossip_handle
    /\ \E b \in DOMAIN branches :
         /\ branches[b].pc = "commit"
         /\ branches[b].plans > 4 * total_permits
         /\ branches[b].lo = 4 * total_permits + 1
         /\ branches[b].commits = 1
    /\ gossips >= 1
    /\ progress_signals >= 1


C33_LimitLeavesPartition ==
    [][\A p \in Partitions :
        (ret'.op = "buffer_write" /\ ret'.p = p /\ ~ret'.ok
            /\ ret'.err = "Limit") =>
            UNCHANGED <<is_empty, buffer, persisting, partition_counter>>]_all_vars

\* A first write the data buffer refused: the partition holds no row, yet
\* it is flagged non-empty and counted.
C33_RefusedFirstWrite ==
    /\ ret.op = "buffer_write"
    /\ ~ret.ok
    /\ ret.err = "Buffer"
    /\ rows(ret.p) = 0
    /\ ~is_empty[ret.p]
    /\ partition_counter.current = 1

\* --------------------------------------- properties: the polls of the gate
\* C32 as stated: the polls of the ingest state before one op are bounded
\* in number, so replay leaves the poll loop even when the ingest state
\* never recovers.
C32_Original == (replay_pc = "gate") ~> (replay_pc # "gate")

\* C32, amended: the poll loop before an op has no bound.  A poll that
\* reads an error other than DiskFull is followed by another poll after
\* the back-off, replay leaves the loop only by a poll that read no such
\* error and then applies the op, and once the ingest state has recovered
\* for good the op is applied.
C32_UnboundedPolling ==
    /\ []((replay_pc = "gate" /\ Blocked(ingest_state)) =>
            /\ ENABLED (poll_ingest_state /\ UNCHANGED vars
                        /\ replay_pc' = "gate")
            /\ ~ENABLED (poll_ingest_state /\ UNCHANGED vars
                         /\ replay_pc' # "gate"))
    /\ [][(replay_pc = "gate" /\ replay_pc' # "gate") =>
            (replay_pc' = "apply" /\ ~Blocked(ingest_state)
             /\ polled' = ingest_state)]_all_vars
    /\ (<>[]~Blocked(ingest_state)) =>
          ((replay_pc = "gate") ~> (replay_pc = "apply"))

\* Replay stands in the poll loop before the second op of a file with a
\* blocking error set, the first op applied.
C32_Witness ==
    /\ replay_pc = "gate"
    /\ Blocked(ingest_state)
    /\ replay_op >= 2
    /\ metrics.ops_success >= 1

\* ------------------------------------------ properties: ops with no data
\* The call that this step of replay added to the trace, if any.
NewCalls == IF Len(trace') > Len(trace)
            THEN {trace'[i] : i \in (Len(trace) + 1)..Len(trace')}
            ELSE {}

\* C38: an op that decodes to no table data is skipped: it is never handed
\* to the sink, it adds one to the skipped_empty counter and nothing to the
\* success counter, it leaves the maximum sequence number alone, and replay
\* goes on with the next op; every other op the sink has applied adds
\* exactly one to the success counter.
C38_EmptyOpSkipped ==
    /\ [](\A i \in DOMAIN trace :
            /\ trace[i].kind = "apply" => trace[i].seqs # {}
            /\ trace[i].kind = "skip" => trace[i].seqs = {})
    /\ [][(replay_pc = "op" /\ current_op = {}) =>
            \/ /\ replay_pc' = "result"
               /\ replay_result'.kind = "MapToDml"
               /\ metrics' = metrics
               /\ trace' = trace
            \/ /\ replay_pc' \in {"op", "read"}
               /\ trace' = Append(trace, Call("skip", file_id, replay_batch,
                                              replay_op, {}, TRUE))
               /\ metrics' = [metrics EXCEPT !.ops_skipped_empty = @ + 1]
               /\ file_max_sequence' = file_max_sequence
               /\ max_sequence' = max_sequence
               /\ replay_result' = replay_result]_all_vars
    /\ [][replay_pc \notin {"idle", "done"} =>
            /\ metrics'.ops_success =
                 metrics.ops_success
                   + Cardinality({c \in NewCalls : c.kind = "apply" /\ c.ok})
            /\ metrics'.ops_skipped_empty =
                 metrics.ops_skipped_empty
                   + Cardinality({c \in NewCalls : c.kind = "skip"})
            /\ Cardinality(NewCalls) <= 1]_all_vars

\* An op without table data was skipped after an op was applied, and
\* replay reads on.
C38_Witness ==
    /\ trace # <<>>
    /\ trace[Len(trace)].kind = "skip"
    /\ replay_pc \in {"op", "read"}
    /\ metrics.ops_skipped_empty = 1
    /\ metrics.ops_success >= 1
    /\ file_max_sequence # None

\* --------------------------------------- properties: the worker's queues
\* The worker left the head of its loop in this step.
LeftRecv(w) == worker_pc[w] = "recv" /\ worker_pc'[w] # "recv"

\* The closed-channel value is what a recv on the worker's own queue, or
\* after it on the global queue, resolves to.
ObservesClosed(w) ==
    \/ rx[w] = <<>> /\ rx_closed[w]
    \/ rx[w] = <<>> /\ global_queue = <<>> /\ global_closed

\* C39: a worker takes a request from the global queue only when its own
\* queue holds none, so a request in its own queue is started before any
\* request waiting in the global queue; and a worker that observes its own
\* queue or the global queue closed stops at once and takes nothing more.
C39_BiasedPoll ==
    /\ [][\A w \in Workers :
            LeftRecv(w) =>
              IF rx[w] # <<>>
              THEN /\ worker_pc'[w] = "compact"
                   /\ ctx'[w].req = Head(rx[w])
                   /\ rx'[w] = Tail(rx[w])
                   /\ global_queue' = global_queue
              ELSE IF ObservesClosed(w)
              THEN /\ worker_pc'[w] = "stopped"
                   /\ global_queue' = global_queue
                   /\ ctx'[w] = ctx[w]
              ELSE /\ worker_pc'[w] = "compact"
                   /\ global_queue # <<>>
                   /\ ctx'[w].req = Head(global_queue)
                   /\ global_queue' = Tail(global_queue)]_all_vars
    /\ [][\A w \in Workers :
            worker_pc[w] = "stopped" =>
              (worker_pc'[w] = "stopped" /\ ctx'[w] = ctx[w])]_all_vars
    /\ \A w \in Workers :
         (worker_pc[w] = "recv" /\ ObservesClosed(w))
            ~> (worker_pc[w] = "stopped")

\* A worker took the request of its own queue and left one waiting in the
\* global queue, and the other worker stopped on its closed queue with
\* that request still waiting.
C39_Witness ==
    \E w, v \in Workers :
        /\ worker_pc[w] = "compact"
        /\ ctx[w].req.id = 2
        /\ global_queue # <<>>
        /\ Head(global_queue).id = 1
        /\ worker_pc[v] = "stopped"
        /\ rx_closed[v]

\* ------------------------------------------ properties: the semaphore
RECURSIVE SumPermits(_)
SumPermits(S) ==
    IF S = {} THEN 0
    ELSE LET bi == CHOOSE x \in S : TRUE
         IN  PlanAt(bi).requested_permits + SumPermits(S \ {bi})

\* The plans that run under permits, and those that wait for them.
PlansHolding == {bi \in PlansInFlight : PlanAt(bi).pc = "run"}

PlansWaiting == {bi \in PlansInFlight : PlanAt(bi).pc = "acquire"}

\* C36: a plan holds permits only while it runs, never while it waits for
\* more: every run takes all its permits in one request of at most the
\* total and gives them back before the next, doubled, request and before
\* the branch uploads or commits; the permits held never sum to more than
\* the total; and no plan waits for good, so plans that ask for more
\* cannot block one another.
C36_NoHoldAndWait ==
    /\ [](/\ permits = SumPermits(PlansHolding)
          /\ permits <= total_permits
          /\ \A bi \in PlansInFlight :
                PlanAt(bi).requested_permits <= total_permits
          /\ \A b \in DOMAIN branches :
                branches[b].pc # "plans" =>
                    \A i \in DOMAIN branches[b].plan :
                        branches[b].plan[i].pc # "run"
          /\ PlansWaiting # {} =>
                \/ PlansHolding # {}
                \/ \E bi \in PlansWaiting :
                      ENABLED (acquire_many(bi[1], bi[2])))
    /\ [][\A bi \in PlansHolding :
            (bi[1] \in DOMAIN branches' /\ bi \in PlansWaiting') =>
                /\ permits' = permits - PlanAt(bi).requested_permits
                /\ branches'[bi[1]].plan[bi[2]].requested_permits =
                       2 * PlanAt(bi).requested_permits]_all_vars
    /\ [][\A bi \in PlansWaiting :
            (bi[1] \in DOMAIN branches'
             /\ branches'[bi[1]].plan[bi[2]].pc = "run") =>
                /\ permits' = permits + PlanAt(bi).requested_permits
                /\ branches'[bi[1]].plan[bi[2]].requested_permits =
                       PlanAt(bi).requested_permits]_all_vars
    /\ (PlansWaiting # {}) ~> (PlansWaiting = {})

\* Two plans of a chunk, one running under two of three permits, the
\* other waiting for two after its one-permit run.
C36_Witness ==
    /\ total_permits = 3
    /\ permits = 2
    /\ \E bi \in PlansHolding : PlanAt(bi).requested_permits = 2
    /\ \E bi \in PlansWaiting : PlanAt(bi).requested_permits = 2

\* ------------------------------------ properties: the files of a branch
\* The branches whose execute_branch returned Ok.
BranchesDone == {b \in DOMAIN branches : branches[b].pc = "done"}

Elems(s) == {s[i] : i \in DOMAIN s}

NoRepeats(s) == Cardinality(Elems(s)) = Len(s)

\* What names a file whatever its level is.
Ident(f) == [f EXCEPT !.compaction_level = 0]

Idents(s) == {Ident(f) : f \in Elems(s)}

\* The commits of a branch that delete, and that upgrade, the file f.
DeletedIn(br, f) ==
    {c \in DOMAIN br.committed : f \in Elems(br.committed[c].delete)}

UpgradedIn(br, f) ==
    {c \in DOMAIN br.committed : f \in Elems(br.committed[c].upgrade)}

\* The file f of the branch is returned as it came.
Kept(br, f) ==
    /\ f \in Elems(br.files_next)
    /\ DeletedIn(br, f) = {} /\ UpgradedIn(br, f) = {}

\* f is returned at the target level after one commit upgraded it.
Upgraded(br, f) ==
    /\ [f EXCEPT !.compaction_level = br.target_level]
           \in Elems(br.files_next)
    /\ Cardinality(UpgradedIn(br, f)) = 1
    /\ \A c \in UpgradedIn(br, f) :
           br.committed[c].target_level = br.target_level
    /\ DeletedIn(br, f) = {}

\* f was soft-deleted by one commit that created files, which are
\* returned, and f is not returned.
Replaced(br, f) ==
    /\ Cardinality(DeletedIn(br, f)) = 1
    /\ \A c \in DeletedIn(br, f) :
           /\ br.committed[c].create # <<>>
           /\ Elems(br.committed[c].create) \subseteq Elems(br.files_next)
    /\ UpgradedIn(br, f) = {}
    /\ Ident(f) \notin Idents(br.files_next)

\* C31: when execute_branch returns Ok, every file of the branch is
\* accounted for exactly once: it is returned as it came, or returned at
\* the target level after a commit upgraded it, or soft-deleted by a
\* commit that also created files, which are returned; the returned files
\* are these and no others, none twice, and none at a lower level than it
\* came with.
C31_FilesAccounted ==
    \A b \in BranchesDone :
        LET br == branches[b]
            created == UNION {Elems(br.committed[c].create) :
                                 c \in DOMAIN br.committed}
        IN
        /\ \A f \in Elems(br.branch) :
              \/ Kept(br, f) /\ ~Upgraded(br, f) /\ ~Replaced(br, f)
              \/ ~Kept(br, f) /\ Upgraded(br, f) /\ ~Replaced(br, f)
              \/ ~Kept(br, f) /\ ~Upgraded(br, f) /\ Replaced(br, f)
        /\ NoRepeats(br.files_next)
        /\ Cardinality(Idents(br.files_next)) = Len(br.files_next)
        /\ Idents(br.files_next) \subseteq
               Idents(br.branch) \cup {Ident(f) : f \in created}
        /\ \A f \in Elems(br.branch) : \A g \in Elems(br.files_next) :
              Ident(f) = Ident(g) =>
                  g.compaction_level >= f.compaction_level

\* A branch of three files returned after one commit: one file replaced
\* by a new one, one upgraded, one kept.
C31_Witness ==
    \E b \in BranchesDone :
        LET br == branches[b] IN
        /\ Len(br.branch) = 3
        /\ Len(br.committed) = 1
        /\ Replaced(br, br.branch[1])
        /\ Upgraded(br, br.branch[2])
        /\ Kept(br, br.branch[3])

\* C34: when the post-classification filter lets a branch proceed, every
\* file of its upgrade set is upgraded to the target level by exactly one
\* commit, the commit of the first chunk, and is returned at the target
\* level; the commits of later chunks carry an empty upgrade set.
C34_UpgradeInFirstCommit ==
    /\ \A b \in DOMAIN branches :
          LET br == branches[b] IN
          /\ \A c \in DOMAIN br.committed :
                c > 1 => br.committed[c].upgrade = <<>>
          /\ br.committed # <<>> => br.upgrade = <<>>
          /\ br.pc = "commit" /\ br.committed # <<>> =>
                br.lo > chunk_size(total_permits)
    /\ \A b \in BranchesDone :
          LET br == branches[b]
              classified == Len(br.branch) - Len(br.split_or_compact)
                               - Len(br.files_to_keep)
              upgrade == SubSeq(br.branch, Len(br.split_or_compact) + 1,
                                Len(br.split_or_compact) + classified)
          IN  \A f \in Elems(upgrade) :
                 /\ br.committed # <<>>
                 /\ f \in Elems(br.committed[1].upgrade)
                 /\ br.committed[1].target_level = br.target_level
                 /\ UpgradedIn(br, f) = {1}
                 /\ [f EXCEPT !.compaction_level = br.target_level]
                        \in Elems(br.files_next)

\* A branch of two chunks returned: its file to upgrade went with the
\* first commit, the second commit upgraded nothing.
C34_Witness ==
    \E b \in BranchesDone :
        LET br == branches[b] IN
        /\ Len(br.committed) = 2
        /\ Len(br.committed[1].upgrade) = 1
        /\ br.committed[2].upgrade = <<>>
        /\ br.committed[2].delete # <<>>

\* A branch whose every file is upgraded returned after its one commit,
\* which deleted and created nothing.
C34_WitnessUpgradeOnly ==
    \E b \in BranchesDone :
        LET br == branches[b] IN
        /\ Len(br.committed) = 1
        /\ br.committed[1].delete = <<>>
        /\ br.committed[1].create = <<>>
        /\ Len(br.committed[1].upgrade) = Len(br.branch)

BranchesInFlight ==
    {b \in DOMAIN branches : branches[b].pc \notin {"pending", "done"}}

\* The files a range holds for later that a branch of this round
\* returned: the round's input for later belongs to no branch.
ReturnedByBranches(option) ==
    {f \in UNION {Elems(s) : s \in option} : f.branch # 0}

\* In the loop over the ranges of a round.
InRangeLoop == try_pc \in {"range", "branches"}

\* C35: within a round the ranges are processed one at a time in list
\* order; the branches of a range are taken out of it, leaving None, and
\* run concurrently, at most total_permits of them at once; only when all
\* of them are done are their outputs appended to the range's
\* files_for_later, after the files already there; and no file made in a
\* round is an input of a branch of that round.
C35_RangesInOrder ==
    /\ [](InRangeLoop =>
            /\ range_no \in 1..num_ranges
            /\ num_ranges = Len(ranges)
            /\ \A g \in 1..(range_no - 1) : ranges[g].branches = None
            /\ \A g \in (range_no + 1)..num_ranges :
                  ReturnedByBranches(ranges[g].files_for_later) = {}
            /\ try_pc = "range" => branches = <<>>
            /\ try_pc = "branches" =>
                  /\ ranges[range_no].branches = None
                  /\ ReturnedByBranches(
                         ranges[range_no].files_for_later) = {}
                  /\ branches # <<>>)
    /\ [](/\ Cardinality(BranchesInFlight) <= total_permits
          /\ \A b \in DOMAIN branches : \A f \in Elems(branches[b].branch) :
                /\ f.made_in < round
                /\ f.range = range_no /\ f.branch = b)
    /\ [][/\ (InRangeLoop /\ InRangeLoop' /\ range_no' # range_no) =>
                /\ range_no' = range_no + 1
                /\ branches' = <<>>
                /\ \A b \in DOMAIN branches : branches[b].pc = "done"
          /\ (try_pc = "branches" /\ try_pc' = "calculate") =>
                /\ range_no = num_ranges
                /\ \A b \in DOMAIN branches : branches[b].pc = "done"
          /\ \A g \in DOMAIN ranges :
                (g \in DOMAIN ranges' /\ round' = round
                   /\ ranges'[g].files_for_later
                         # ranges[g].files_for_later) =>
                   /\ g = range_no /\ try_pc = "branches"
                   /\ \A b \in DOMAIN branches : branches[b].pc = "done"
                   /\ \E before \in {unwrap_or(ranges[g].files_for_later,
                                               <<>>)} :
                      \E after \in ranges'[g].files_for_later :
                        /\ Len(after) >= Len(before)
                        /\ SubSeq(after, 1, Len(before)) = before
                        /\ LET added == SubSeq(after, Len(before) + 1,
                                               Len(after))
                           IN  /\ NoRepeats(added)
                               /\ Elems(added) =
                                      UNION {Elems(branches[b].files_next) :
                                                b \in DOMAIN branches}
                               /\ Len(added) =
                                      Len(Concat([b \in DOMAIN branches |->
                                             branches[b].files_next]))
         ]_all_vars

\* The second range of a round is at hand, its branches taken and one of
\* them running while another waits for its turn; the first range holds
\* the file it had, then what its two branches returned.
C35_Witness ==
    /\ try_pc = "branches" /\ range_no = 2
    /\ \E b \in BranchesInFlight : \E p \in DOMAIN branches :
          branches[p].pc = "pending"
    /\ \E later \in ranges[1].files_for_later :
          /\ Len(later) = 3
          /\ later[1].branch = 0
          /\ {later[2].branch, later[3].branch} = {1, 2}
          /\ later[2].made_in = round /\ later[3].made_in = round

\* Two branches of a range in flight at once.
C35_WitnessConcurrent ==
    /\ Cardinality(BranchesInFlight) = 2
    /\ total_permits = 2

\* ------------------------------------ properties: the schema limits
Validated == limit_result # NotValidated

ExistingTables == DOMAIN namespace_schema.tables

\* The i-th table of the write is absent from the schema.
AbsentTable(i) ==
    column_names_by_table[i].table_name \notin ExistingTables

ExistingColumns(i) ==
    IF AbsentTable(i) THEN {}
    ELSE namespace_schema.tables[column_names_by_table[i].table_name]

MergedColumns(i) ==
    ExistingColumns(i) \cup column_names_by_table[i].column_names

\* The write adds a column to its i-th table, and the table would hold
\* more than max_columns_per_table distinct columns.
OverColumnLimit(i) ==
    /\ column_names_by_table[i].column_names \ ExistingColumns(i) # {}
    /\ Cardinality(MergedColumns(i)) > namespace_schema.max_columns_per_table

\* The absent tables the write names up to its i-th.
NewTables(i) == {j \in 1..i : AbsentTable(j)}

\* The i-th table is absent, and with the new tables up to it the
\* namespace would hold more than max_tables.
OverTableLimit(i) ==
    /\ AbsentTable(i)
    /\ Cardinality(ExistingTables) + Cardinality(NewTables(i))
           > namespace_schema.max_tables

ViolatingTables ==
    {i \in DOMAIN column_names_by_table :
        OverColumnLimit(i) \/ OverTableLimit(i)}

FirstViolating == CHOOSE i \in ViolatingTables :
                      \A j \in ViolatingTables : i <= j

\* The write names existing tables and existing columns only.
NoGrowth ==
    \A i \in DOMAIN column_names_by_table :
        /\ ~AbsentTable(i)
        /\ column_names_by_table[i].column_names \subseteq ExistingColumns(i)

\* Some table of the schema holds more columns than the limit, and the
\* namespace more tables than the limit.
OverBothLimits ==
    /\ Cardinality(ExistingTables) > namespace_schema.max_tables
    /\ \E t \in ExistingTables :
          Cardinality(namespace_schema.tables[t])
              > namespace_schema.max_columns_per_table

\* C40 as stated: the request is accepted iff no table of the write
\* breaks a limit, and otherwise the first table that does decides the
\* error: a Table error iff it is absent and the table count exceeds
\* max_tables, a Column error iff the write adds a column to it and its
\* merged column count exceeds max_columns_per_table.
C40_Original ==
    Validated =>
        /\ limit_result.tag = "Ok" <=> ViolatingTables = {}
        /\ ViolatingTables # {} =>
              /\ limit_result.tag = "Table"
                     <=> OverTableLimit(FirstViolating)
              /\ limit_result.tag = "Column"
                     <=> OverColumnLimit(FirstViolating)
        /\ NoGrowth => limit_result.tag = "Ok"

\* C40, amended: validate_schema_limits enforces the cached limits only
\* on growth.  The request is accepted iff no table of the write breaks a
\* limit; a write that names existing tables and existing columns only is
\* accepted whatever the schema holds.  Otherwise the first table that
\* breaks a limit decides the error, and for an absent table the column
\* limit is checked before the table limit: the error is a Column error,
\* naming the table and its column counts, iff the write adds a column
\* to that table and its merged column count exceeds
\* max_columns_per_table, and a Table error, with the table counts, iff
\* the table is absent, its columns are within the column limit, and the
\* existing tables plus the new tables up to it exceed max_tables.
\* validate_service_limits counts the error by its kind.
C40_LimitsOnGrowth ==
    Validated =>
        /\ limit_result.tag \in {"Ok", "Table", "Column"}
        /\ limit_result.tag = "Ok" <=> ViolatingTables = {}
        /\ NoGrowth => limit_result.tag = "Ok"
        /\ ViolatingTables # {} =>
              LET i == FirstViolating IN
              /\ limit_result.tag = "Column" <=> OverColumnLimit(i)
              /\ limit_result.tag = "Table"
                     <=> (OverTableLimit(i) /\ ~OverColumnLimit(i))
              /\ limit_result.tag = "Column" =>
                    limit_result =
                        CachedServiceProtectionLimit_Column(
                            column_names_by_table[i].table_name,
                            Cardinality(ExistingColumns(i)),
                            Cardinality(MergedColumns(i)),
                            namespace_schema.max_columns_per_table)
              /\ limit_result.tag = "Table" =>
                    limit_result =
                        CachedServiceProtectionLimit_Table(
                            Cardinality(ExistingTables),
                            Cardinality(ExistingTables)
                                + Cardinality(NewTables(i)),
                            namespace_schema.max_tables)
        /\ service_limit_hit_tables =
               IF limit_result.tag = "Table" THEN 1 ELSE 0
        /\ service_limit_hit_columns =
               IF limit_result.tag = "Column" THEN 1 ELSE 0

\* A namespace over its table limit with a table over its column limit
\* took a write of two of its tables with columns they hold.
C40_Witness ==
    /\ Validated /\ limit_result.tag = "Ok"
    /\ OverBothLimits /\ NoGrowth
    /\ Len(column_names_by_table) = 2
    /\ \E i \in DOMAIN column_names_by_table :
          Cardinality(ExistingColumns(i))
              > namespace_schema.max_columns_per_table

\* A write whose second table is absent and breaks both limits, after a
\* table it creates: the Column error is returned.
C40_WitnessBothLimits ==
    /\ Validated /\ limit_result.tag = "Column"
    /\ Len(column_names_by_table) = 2
    /\ AbsentTable(1) /\ ViolatingTables = {2}
    /\ OverTableLimit(2) /\ OverColumnLimit(2)

\* A write whose second table is the first to break a limit, the table
\* limit, after a table the write creates.
C40_WitnessTable ==
    /\ Validated /\ limit_result.tag = "Table"
    /\ Len(column_names_by_table) = 2
    /\ AbsentTable(1) /\ FirstViolating = 2
    /\ limit_result.merged_table_count
           = limit_result.existing_table_count + 2
====
